---- MODULE Spec2Model ----
(***************************************************************************)
(* A model of the play-by-play reconciliation of nhl_scraper: the time     *)
(* codec, the event-schema steps and the shift/event merge of scrape_pbp   *)
(* (scraper/scrape.py), scrapeGameComplete (scraper/game.py) and the       *)
(* helpers of scraper/utils.py and scraper/tools/utils.py.                 *)
(*                                                                         *)
(* Conventions.  A text is a sequence of one-character strings.  A cell    *)
(* that pandas may leave empty is NaN (the empty tuple) or <<v>>.  A call  *)
(* that raises yields a record whose status names the exception.           *)
(***************************************************************************)
EXTENDS Integers, Sequences, FiniteSets, TLC

VARIABLES
    text,     \* the clock text handed to the time codec
    steps,    \* the codec calls made so far on that text, oldest first
    game,     \* the upstream data of one game: plays, rosterSpots, shift rows
    ret,      \* the outcome of the last entry-point call on that game
    cache,    \* what lru_cache holds for the game id, per cached entry point
    batch,    \* a run of NHLPBPProcessor.fetch_and_process_multiple
    draft,    \* a call of scrapeDraft: its arguments, the API's answer, requests sent
    toi,      \* a run of NHLTOIScraper.scrape_toi_multiple_games
    edge      \* a call of scrapeSkaterOverview or scrapeSkaterSpeed

vars == <<text, steps, game, ret, cache, batch, draft, toi, edge>>

NaN == <<>>
isna(v) == v = NaN
notnull(v) == v # NaN
Val(v) == v[1]
\* elementwise == of two cells: NaN equals nothing, itself included
Eq(a, b) == notnull(a) /\ a = b

(***************************************************************************)
(* Bounds of the model.                                                    *)
(***************************************************************************)
MaxTextLen == 7      \* longest clock text handed to the codec
MaxSteps == 3        \* codec calls chained on one text
MaxPlays == 2        \* plays of a feed whose order is free
MaxShifts == 2       \* shift rows of a report whose rows are free
MaxFillPlays == 5    \* plays of a feed whose counters are free
MaxReportShifts == 2 \* shifts under one heading of a report
MaxLines == 12       \* lines of the text of an NHL Edge section
MaxBatch == 3        \* games handed to one NHLPBPProcessor

(***************************************************************************)
(* Texts and Python's str / int primitives on them.                        *)
(***************************************************************************)
DigitChars == <<"0", "1", "2", "3", "4", "5", "6", "7", "8", "9">>

IsDigit(c) == \E d \in 1..10 : DigitChars[d] = c

DigitVal(c) == (CHOOSE d \in 1..10 : DigitChars[d] = c) - 1

\* str.count(':')
RECURSIVE count(_, _)
count(s, c) ==
    IF s = <<>> THEN 0
    ELSE (IF Head(s) = c THEN 1 ELSE 0) + count(Tail(s), c)

\* str.split(c): the parts between the separators, empty parts kept
RECURSIVE split(_, _)
split(s, c) ==
    IF \A i \in 1..Len(s) : s[i] # c THEN <<s>>
    ELSE LET k == CHOOSE i \in 1..Len(s) : s[i] = c /\ \A j \in 1..(i - 1) : s[j] # c
         IN  <<SubSeq(s, 1, k - 1)>> \o split(SubSeq(s, k + 1, Len(s)), c)

\* int(part) succeeds exactly on a non-empty run of decimal digits
\* (over the characters the model draws texts from)
IsInt(part) == part # <<>> /\ \A i \in 1..Len(part) : IsDigit(part[i])

RECURSIVE int(_)
int(part) ==
    IF Len(part) = 1 THEN DigitVal(part[1])
    ELSE 10 * int(SubSeq(part, 1, Len(part) - 1)) + DigitVal(part[Len(part)])

\* str(n) for n >= 0
RECURSIVE str(_)
str(n) == IF n < 10 THEN <<DigitChars[n + 1]>> ELSE str(n \div 10) \o <<DigitChars[(n % 10) + 1]>>

\* f"{n:02d}" for n >= 0
Pad02(n) == IF n < 10 THEN <<"0">> \o str(n) ELSE str(n)

Ok(n) == [status |-> "ok", value |-> <<n>>]
Raise(exc) == [status |-> exc, value |-> NaN]

(***************************************************************************)
(* The time codec.                                                         *)
(***************************************************************************)
\* scrape.py: convert_str_to_seconds
convert_str_to_seconds(time_str) ==
    LET number_of_separators == count(time_str, ":")
        parts == split(time_str, ":")
    IN  IF number_of_separators = 0
        THEN IF IsInt(time_str) THEN Ok(int(time_str)) ELSE Raise("ValueError")
        ELSE IF number_of_separators = 1
        THEN IF \A i \in 1..2 : IsInt(parts[i])
             THEN Ok(int(parts[1]) * 60 + int(parts[2]))
             ELSE Raise("ValueError")
        ELSE IF number_of_separators = 2
        THEN IF \A i \in 1..3 : IsInt(parts[i])
             THEN Ok(int(parts[1]) * 3600 + int(parts[2]) * 60 + int(parts[3]))
             ELSE Raise("ValueError")
        ELSE Raise("ValueError")

\* utils.py: convert_time_to_seconds
convert_time_to_seconds(time_str) ==
    LET parts == split(time_str, ":")
    IN  IF Len(parts) = 3
        THEN IF \A i \in 1..3 : IsInt(parts[i])
             THEN Ok(int(parts[1]) * 3600 + int(parts[2]) * 60 + int(parts[3]))
             ELSE Raise("ValueError")
        ELSE IF Len(parts) = 2
        THEN IF \A i \in 1..2 : IsInt(parts[i])
             THEN Ok(int(parts[1]) * 60 + int(parts[2]))
             ELSE Raise("ValueError")
        ELSE Raise("ValueError")

\* tools/utils.py: convert_time_to_seconds (the empty text converts to 0)
tools_convert_time_to_seconds(time_str) ==
    IF time_str = <<>> THEN Ok(0) ELSE convert_time_to_seconds(time_str)

\* utils.py and tools/utils.py: format_seconds_to_time
MinutesWrapAtHour(seconds, include_hours) ==
    IF include_hours
    THEN Pad02(seconds \div 3600) \o <<":">> \o Pad02((seconds % 3600) \div 60)
             \o <<":">> \o Pad02(seconds % 60)
    ELSE Pad02((seconds % 3600) \div 60) \o <<":">> \o Pad02(seconds % 60)

format_seconds_to_time(seconds, include_hours) ==
    IF include_hours
    THEN Pad02(seconds \div 3600) \o <<":">> \o Pad02((seconds % 3600) \div 60)
             \o <<":">> \o Pad02(seconds % 60)
    ELSE Pad02(seconds \div 60) \o <<":">> \o Pad02(seconds % 60)

(***************************************************************************)
(* Data-frame primitives of pandas used by the reconciliation.             *)
(***************************************************************************)
RECURSIVE Flatten(_)
Flatten(seqs) == IF seqs = <<>> THEN <<>> ELSE Head(seqs) \o Flatten(Tail(seqs))

\* Series.unique(): first occurrences, in order
RECURSIVE unique(_)
unique(col) ==
    IF col = <<>> THEN <<>>
    ELSE LET init == unique(SubSeq(col, 1, Len(col) - 1))
             last == col[Len(col)]
         IN  IF \E i \in 1..Len(init) : init[i] = last THEN init ELSE Append(init, last)

\* Series.bfill(): a NaN cell takes the first non-NaN cell below it
RECURSIVE bfill(_)
bfill(col) ==
    IF col = <<>> THEN <<>>
    ELSE LET rest == bfill(Tail(col))
         IN  IF isna(Head(col)) /\ rest # <<>> THEN <<Head(rest)>> \o rest
             ELSE <<Head(col)>> \o rest

\* Series.ffill(): a NaN cell takes the last non-NaN cell above it
RECURSIVE ffill(_)
ffill(col) ==
    IF col = <<>> THEN <<>>
    ELSE LET init == ffill(SubSeq(col, 1, Len(col) - 1))
             last == col[Len(col)]
         IN  IF isna(last) /\ init # <<>> THEN Append(init, init[Len(init)])
             ELSE Append(init, last)

\* Series.fillna(v)
fillna(col, v) == [i \in 1..Len(col) |-> IF isna(col[i]) THEN <<v>> ELSE col[i]]

\* the order of one nullable integer key: <0 before, 0 tie, >0 after (NaN
\* keys go last)
CmpNullable(a, b) ==
    IF isna(a) THEN (IF isna(b) THEN 0 ELSE 1)
    ELSE IF isna(b) THEN -1
    ELSE IF Val(a) < Val(b) THEN -1
    ELSE IF Val(a) > Val(b) THEN 1 ELSE 0

\* the strict lexicographic order of two tuples of nullable keys
RECURSIVE KeysLess(_, _)
KeysLess(a, b) ==
    IF a = <<>> THEN FALSE
    ELSE IF CmpNullable(Head(a), Head(b)) # 0 THEN CmpNullable(Head(a), Head(b)) < 0
    ELSE KeysLess(Tail(a), Tail(b))

\* DataFrame.sort_values on several keys: a stable sort of the rows by
\* their key tuples, keys[i] being the keys of rows[i] (\o <<>> makes a
\* tuple of a sequence given as a function)
SortBy(rows, keys) ==
    LET n == Len(rows)
        r == rows \o <<>>
        ks == keys \o <<>>
        Before(j, i) == KeysLess(ks[j], ks[i])
                           \/ (~KeysLess(ks[i], ks[j]) /\ j < i)
        pos == [i \in 1..n |-> 1 + Cardinality({j \in 1..n : Before(j, i)})] \o <<>>
    IN  [k \in 1..n |-> r[CHOOSE i \in 1..n : pos[i] = k]] \o <<>>

(***************************************************************************)
(* The game-centre response: teams, and the tables of scrape_pbp.          *)
(***************************************************************************)
homeTeam == [id |-> "H", abbrev |-> "HOM"]
awayTeam == [id |-> "A", abbrev |-> "AWY"]

\* scrape.py 281-285: abbrev_dict, applied with Series.map
abbrev_dict(teamId) ==
    IF teamId = <<awayTeam.id>> THEN <<awayTeam.abbrev>>
    ELSE IF teamId = <<homeTeam.id>> THEN <<homeTeam.abbrev>>
    ELSE NaN

\* scrape.py 291-299: expected_events
VocabularyWithOneMore ==
    {"period-start", "faceoff", "hit", "blocked-shot", "shot-on-goal", "stoppage",
     "giveaway", "delayed-penalty", "penalty", "failed-shot-attempt", "missed-shot",
     "goal", "takeaway", "period-end", "shootout-complete", "game-end",
     "unknown-event-xyz"}

expected_events ==
    {"period-start", "faceoff", "hit", "blocked-shot", "shot-on-goal", "stoppage",
     "giveaway", "delayed-penalty", "penalty", "failed-shot-attempt", "missed-shot",
     "goal", "takeaway", "period-end", "shootout-complete", "game-end"}

\* scrape.py 714-733: event_priority, applied with Series.map (NaN on a miss)
event_priority(event) ==
    CASE event = "goal" -> <<1>>
      [] event = "penalty" -> <<2>>
      [] event = "delayed-penalty" -> <<3>>
      [] event = "shot-on-goal" -> <<4>>
      [] event = "missed-shot" -> <<5>>
      [] event = "failed-shot-attempt" -> <<5>>
      [] event = "blocked-shot" -> <<7>>
      [] event = "hit" -> <<8>>
      [] event = "takeaway" -> <<9>>
      [] event = "giveaway" -> <<10>>
      [] event = "stoppage" -> <<11>>
      [] event = "line-change" -> <<12>>
      [] event = "period-start" -> <<13>>
      [] event = "period-end" -> <<14>>
      [] event = "game-end" -> <<15>>
      [] event = "faceoff" -> <<16>>
      [] OTHER -> NaN

\* scrape.py 499-545: the table of faceoff dots, keyed by (xFixed, yFixed)
FaceoffDots ==
    << [x |->   0, y |->   0, home_team_side |-> "Centre",         away_team_side |-> "Centre"],
       [x |->  20, y |->  22, home_team_side |-> "Neutral Zone",   away_team_side |-> "Neutral Zone"],
       [x |->  20, y |-> -22, home_team_side |-> "Neutral Zone",   away_team_side |-> "Neutral Zone"],
       [x |-> -20, y |->  22, home_team_side |-> "Neutral Zone",   away_team_side |-> "Neutral Zone"],
       [x |-> -20, y |-> -22, home_team_side |-> "Neutral Zone",   away_team_side |-> "Neutral Zone"],
       [x |->  69, y |->  22, home_team_side |-> "Offensive Zone", away_team_side |-> "Defensive Zone"],
       [x |->  69, y |-> -22, home_team_side |-> "Offensive Zone", away_team_side |-> "Defensive Zone"],
       [x |-> -69, y |->  22, home_team_side |-> "Defensive Zone", away_team_side |-> "Offensive Zone"],
       [x |-> -69, y |-> -22, home_team_side |-> "Defensive Zone", away_team_side |-> "Offensive Zone"],
       [x |->  69, y |->   5, home_team_side |-> "Offensive Zone", away_team_side |-> "Defensive Zone"],
       [x |->  69, y |->  -5, home_team_side |-> "Offensive Zone", away_team_side |-> "Defensive Zone"],
       [x |-> -69, y |->   5, home_team_side |-> "Defensive Zone", away_team_side |-> "Offensive Zone"],
       [x |-> -69, y |->  -5, home_team_side |-> "Defensive Zone", away_team_side |-> "Offensive Zone"] >>

(***************************************************************************)
(* scrape_pbp, stage by stage.  g is the upstream data of the game:        *)
(*   g.plays        the plays of the game-centre feed, in feed order       *)
(*   g.rosterSpots  the roster spots of the same response                  *)
(*   g.shifts       the shift rows of the two TOI reports                  *)
(***************************************************************************)
\* scrape.py 767-802: scrapeRosters
scrapeRosters(g) ==
    [i \in 1..Len(g.rosterSpots) |->
        LET r == g.rosterSpots[i]
        IN  [playerId |-> <<r.playerId>>,
             teamId |-> <<r.teamId>>,
             sweaterNumber |-> r.sweaterNumber,
             positionCode |-> <<r.positionCode>>,
             teamAbbrev |-> abbrev_dict(<<r.teamId>>),
             is_home |-> IF r.teamId = homeTeam.id THEN 1 ELSE 0]]

\* scrape.py 856-897: the shift rows of the report of one side, in report
\* order; the sweaterNumber of a row of g.shifts is the number in the heading
\* the row stands under
ReportRows(g, is_home) == SelectSeq(g.shifts, LAMBDA r : r.is_home = is_home)

\* scrape.py 872: the player headings of a report, in report order
player_names(rows) ==
    LET first == SelectSeq([i \in 1..Len(rows) |-> i],
                     LAMBDA i : i = 1 \/ rows[i].sweaterNumber # rows[i - 1].sweaterNumber)
    IN  [k \in 1..Len(first) |-> rows[first[k]].sweaterNumber]

\* scrape.py 880, 905: the 'Shift Number' cell of row i; the report numbers
\* the shifts under a heading 1, 2, 3, ...
ShiftNumber(rows, i) ==
    LET others == {j \in 1..(i - 1) : rows[j].sweaterNumber # rows[i].sweaterNumber}
    IN  i - (IF others = {} THEN 0 ELSE CHOOSE j \in others : \A k \in others : k <= j)

\* scrape.py 916-937: the loop that names the rows; row i gets the heading at
\* player_index, and only then does a shift number smaller than that of the
\* row above move player_index on.  player_index counts decreases and there
\* is at most one per heading after the first, so it stays below
\* len(player_names)
AssignPlayerNames(rows) ==
    [i \in 1..Len(rows) |->
        LET player_index ==
              Cardinality({k \in 2..(i - 1) :
                              ShiftNumber(rows, k) < ShiftNumber(rows, k - 1)})
        IN  [rows[i] EXCEPT !.sweaterNumber = player_names(rows)[player_index + 1]]]

\* scrape.py 957-959: the texts of the shift rows are converted one by one;
\* the first text that does not convert aborts the scrape
ShiftTextsConvert(g) ==
    \A i \in 1..Len(g.shifts) :
        /\ convert_str_to_seconds(g.shifts[i].start_elapsed).status = "ok"
        /\ convert_str_to_seconds(g.shifts[i].end_elapsed).status = "ok"

\* scrape.py 897-902: a report without rows makes a frame without columns,
\* and its 'Period' is a KeyError; the home report is read first
ShiftsError(g) ==
    IF ReportRows(g, 1) = <<>> THEN "KeyError"
    ELSE IF ~ShiftTextsConvert([g EXCEPT !.shifts = ReportRows(g, 1)]) THEN "ValueError"
    ELSE IF ReportRows(g, 0) = <<>> THEN "KeyError"
    ELSE IF ~ShiftTextsConvert(g) THEN "ValueError"
    ELSE "ok"

\* scrape.py 830-976: scrapeShiftsHTML, the rows it returns: those of the
\* home report, then those of the away report
scrapeShiftsHTML(g) ==
    LET named == AssignPlayerNames(ReportRows(g, 1)) \o AssignPlayerNames(ReportRows(g, 0))
    IN  [i \in 1..Len(named) |->
            LET r == named[i]
            IN  [is_home |-> r.is_home,
                 sweaterNumber |-> r.sweaterNumber,
                 Period |-> r.Period,
                 startTime_s |-> Val(convert_str_to_seconds(r.start_elapsed).value)
                                    + (r.Period - 1) * 60 * 20,
                 endTime_s |-> Val(convert_str_to_seconds(r.end_elapsed).value)
                                    + (r.Period - 1) * 60 * 20]]

\* scrape.py 232-234
position(positionCode) ==
    IF positionCode \in {<<"L">>, <<"C">>, <<"R">>, <<"W">>} THEN <<"F">>
    ELSE IF positionCode = <<"D">> THEN <<"D">>
    ELSE IF positionCode = <<"G">> THEN <<"G">>
    ELSE NaN

\* scrape.py 231-241: the left join of the shift rows with the roster on
\* (is_home, sweaterNumber), then position, id and side
JoinRoster(rows, rosters_df) ==
    LET joined ==
          Flatten([i \in 1..Len(rows) |->
              LET s == rows[i]
                  m == SelectSeq(rosters_df, LAMBDA r :
                          r.is_home = s.is_home /\ r.sweaterNumber = s.sweaterNumber)
              IN  IF m = <<>>
                  THEN << [playerId |-> NaN, teamId |-> NaN, teamAbbrev |-> NaN,
                           position |-> NaN] @@ s >>
                  ELSE [k \in 1..Len(m) |->
                          [playerId |-> m[k].playerId, teamId |-> m[k].teamId,
                           teamAbbrev |-> m[k].teamAbbrev,
                           position |-> position(m[k].positionCode)] @@ s]])
    IN  [i \in 1..Len(joined) |->
            [id |-> i - 1, side |-> IF joined[i].is_home = 1 THEN "home" ELSE "away"]
                @@ joined[i]]

\* scrape.py 291-301: the closed vocabulary
UnexpectedEvents(plays) ==
    {plays[i].typeDescKey : i \in 1..Len(plays)} \ expected_events

\* scrape.py 339-360: event_columns, and the actor slot i of a play
event_columns(event) ==
    CASE event = "faceoff" -> <<"winningPlayerId", "losingPlayerId">>
      [] event = "hit" -> <<"hittingPlayerId", "hitteePlayerId">>
      [] event = "blocked-shot" -> <<"shootingPlayerId", "blockingPlayerId">>
      [] event = "shot-on-goal" -> <<"shootingPlayerId">>
      [] event = "missed-shot" -> <<"shootingPlayerId">>
      [] event = "goal" -> <<"scoringPlayerId", "assist1PlayerId", "assist2PlayerId">>
      [] event = "giveaway" -> <<"playerId">>
      [] event = "takeaway" -> <<"playerId">>
      [] event = "penalty" -> <<"committedByPlayerId", "drawnByPlayerId", "servedByPlayerId">>
      [] event = "failed-shot-attempt" -> <<"shootingPlayerId">>
      [] OTHER -> <<>>

event_player(p, i) ==
    LET columns == event_columns(p.typeDescKey)
    IN  IF i <= Len(columns) THEN p.details[columns[i]] ELSE NaN

\* scrape.py 363-364: ffill().fillna(0) of one counter column
FillCounter(col) == fillna(ffill(col), 0)

\* scrape.py 419-420: str.split(':') and int(x[0]) * 60 + int(x[1])
clock_seconds(t) ==
    LET x == split(t, ":")
    IN  IF Len(x) < 2 THEN Raise("IndexError")
        ELSE IF IsInt(x[1]) /\ IsInt(x[2]) THEN Ok(int(x[1]) * 60 + int(x[2]))
        ELSE Raise("ValueError")

\* scrape.py 421
elapsedTime(period, timeInPeriod_s) == (period - 1) * 20 * 60 + timeInPeriod_s

\* scrape.py 430 and 711: np.where(eventTeam == homeTeam, 'home', 'away')
eventTeamType(eventTeam) == IF eventTeam = <<homeTeam.abbrev>> THEN "home" ELSE "away"

\* scrape.py 432-444: one coordinate of xFixed / yFixed
FlipsForHomeOnly(coord, teamType, homeTeamDefendingSide) ==
    IF teamType = "home" /\ homeTeamDefendingSide = "right"
    THEN (IF isna(coord) THEN NaN ELSE <<0 - Val(coord)>>)
    ELSE coord

Fixed(coord, teamType, homeTeamDefendingSide) ==
    IF \/ (teamType = "home" /\ homeTeamDefendingSide = "right")
       \/ (teamType = "away" /\ homeTeamDefendingSide = "right")
    THEN (IF isna(coord) THEN NaN ELSE <<0 - Val(coord)>>)
    ELSE coord

\* scrape.py 288-445: the event rows of pbp_df (the plays are known to
\* convert)
EventRows(g) ==
    LET plays == g.plays
        n == Len(plays)
        awaySOG == FillCounter([i \in 1..n |-> plays[i].awaySOG])
        homeSOG == FillCounter([i \in 1..n |-> plays[i].homeSOG])
        awayScore == FillCounter([i \in 1..n |-> plays[i].awayScore])
        homeScore == FillCounter([i \in 1..n |-> plays[i].homeScore])
    IN  [i \in 1..n |->
          LET p == plays[i]
              eventTeam == abbrev_dict(p.eventOwnerTeamId)
              teamType == eventTeamType(eventTeam)
              timeInPeriod_s == Val(clock_seconds(p.timeInPeriod).value)
          IN  [eventId |-> <<p.eventId>>,
               event |-> p.typeDescKey,
               period |-> <<p.period>>,
               periodNumber |-> <<p.period>>,
               periodType |-> <<p.periodType>>,
               homeTeamDefendingSide |-> <<p.homeTeamDefendingSide>>,
               teamId |-> p.eventOwnerTeamId,
               eventTeam |-> eventTeam,
               eventTeamType |-> teamType,
               xCoord |-> p.xCoord, yCoord |-> p.yCoord,
               xFixed |-> Fixed(p.xCoord, teamType, p.homeTeamDefendingSide),
               yFixed |-> Fixed(p.yCoord, teamType, p.homeTeamDefendingSide),
               awaySOG |-> awaySOG[i], homeSOG |-> homeSOG[i],
               awayScore |-> awayScore[i], homeScore |-> homeScore[i],
               goalieInNetId |-> p.goalieInNetId,
               playerId_1 |-> event_player(p, 1),
               playerId_2 |-> event_player(p, 2),
               playerId_3 |-> event_player(p, 3),
               homeTeam |-> <<homeTeam.abbrev>>,
               homeTeamId |-> <<homeTeam.id>>,
               awayTeamId |-> <<awayTeam.id>>,
               elapsedTime |-> elapsedTime(p.period, timeInPeriod_s)]]

\* scrape.py 544-545: the left join with the faceoff dots on (xFixed, yFixed)
FaceoffDotJoin(rows) ==
    Flatten([i \in 1..Len(rows) |->
        LET dots == SelectSeq(FaceoffDots, LAMBDA d :
                        rows[i].xFixed = <<d.x>> /\ rows[i].yFixed = <<d.y>>)
        IN  IF dots = <<>>
            THEN << [home_team_side |-> NaN, away_team_side |-> NaN] @@ rows[i] >>
            ELSE [k \in 1..Len(dots) |->
                    [home_team_side |-> <<dots[k].home_team_side>>,
                     away_team_side |-> <<dots[k].away_team_side>>] @@ rows[i]]])

\* scrape.py 446-457: type_on / type_off of a shift boundary
boundary_type(time_s, pbp_df) ==
    IF \E i \in 1..Len(pbp_df) : pbp_df[i].event = "faceoff" /\ pbp_df[i].elapsedTime = time_s
    THEN "SIP" ELSE "OTF"

\* scrape.py 448-457 and 549-569: the shift rows with their boundary types,
\* left-joined with the faceoffs on startTime_s = elapsedTime
ZoneStarts(shifts_df, pbp_df) ==
    Flatten([i \in 1..Len(shifts_df) |->
        LET s == [type_on |-> boundary_type(shifts_df[i].startTime_s, pbp_df),
                  type_off |-> boundary_type(shifts_df[i].endTime_s, pbp_df)]
                    @@ shifts_df[i]
            f == SelectSeq(pbp_df, LAMBDA e :
                    e.event = "faceoff" /\ e.elapsedTime = s.startTime_s)
        IN  IF f = <<>> THEN << [zoneStartSide |-> NaN] @@ s >>
            ELSE [k \in 1..Len(f) |->
                    [zoneStartSide |-> IF s.side = "home" THEN f[k].home_team_side
                                       ELSE f[k].away_team_side] @@ s]])

\* scrape.py 593: the rows of a shift table on the ice at `second`
OnAtEndToo(df, second) ==
    SelectSeq(df, LAMBDA r : r.startTime_s <= second /\ r.endTime_s >= second)

OnAt(df, second) ==
    SelectSeq(df, LAMBDA r : r.startTime_s <= second /\ r.endTime_s > second)

\* scrape.py 583-600: home_sktrs_id / away_sktrs_id at one second
sktrs_id(shifts_df, is_home, second) ==
    LET skaters_df == SelectSeq(shifts_df, LAMBDA r :
                          r.position # <<"G">> /\ r.is_home = is_home)
        on == OnAt(skaters_df, second)
    IN  unique([k \in 1..Len(on) |-> on[k].playerId])

\* scrape.py 585-612: home_goalie_id / away_goalie_id at one second
FirstGoalieWins(shifts_df, is_home, second) ==
    LET goalies_df == SelectSeq(shifts_df, LAMBDA r :
                          r.position = <<"G">> /\ r.is_home = is_home)
        on == OnAt(goalies_df, second)
        ids == unique([k \in 1..Len(on) |-> on[k].playerId])
    IN  IF Len(ids) >= 1 THEN ids[1] ELSE NaN

goalie_id(shifts_df, is_home, second) ==
    LET goalies_df == SelectSeq(shifts_df, LAMBDA r :
                          r.position = <<"G">> /\ r.is_home = is_home)
        on == OnAt(goalies_df, second)
        ids == unique([k \in 1..Len(on) |-> on[k].playerId])
    IN  IF Len(ids) = 1 THEN ids[1] ELSE NaN

CopiesToOwnSide(e, shifts_df) ==
    LET home_sktrs_id == sktrs_id(shifts_df, 1, e.elapsedTime)
        away_sktrs_id == sktrs_id(shifts_df, 0, e.elapsedTime)
        home_goalie_id == goalie_id(shifts_df, 1, e.elapsedTime)
        away_goalie_id == goalie_id(shifts_df, 0, e.elapsedTime)
        is_home == IF e.eventTeamType = "home" THEN 1 ELSE 0
        override == /\ notnull(e.goalieInNetId)
                    /\ isna(home_goalie_id)
                    /\ isna(away_goalie_id)
    IN  [home_skaters |-> <<Len(home_sktrs_id)>>,
         away_skaters |-> <<Len(away_sktrs_id)>>,
         home_skater_id |-> home_sktrs_id,
         away_skater_id |-> away_sktrs_id,
         is_home |-> <<is_home>>,
         away_goalie_id |-> IF override /\ is_home = 0 THEN e.goalieInNetId
                            ELSE away_goalie_id,
         home_goalie_id |-> IF override /\ is_home = 1 THEN e.goalieInNetId
                            ELSE home_goalie_id,
         typeCode |-> NaN, descKey |-> NaN, zoneStartSide_1 |-> NaN] @@ e

\* scrape.py 614-662: one event row with its on-ice annotation and the
\* goalieInNetId override
Annotate(e, shifts_df) ==
    LET home_sktrs_id == sktrs_id(shifts_df, 1, e.elapsedTime)
        away_sktrs_id == sktrs_id(shifts_df, 0, e.elapsedTime)
        home_goalie_id == goalie_id(shifts_df, 1, e.elapsedTime)
        away_goalie_id == goalie_id(shifts_df, 0, e.elapsedTime)
        is_home == IF e.eventTeamType = "home" THEN 1 ELSE 0
        override == /\ notnull(e.goalieInNetId)
                    /\ isna(home_goalie_id)
                    /\ isna(away_goalie_id)
    IN  [home_skaters |-> <<Len(home_sktrs_id)>>,
         away_skaters |-> <<Len(away_sktrs_id)>>,
         home_skater_id |-> home_sktrs_id,
         away_skater_id |-> away_sktrs_id,
         is_home |-> <<is_home>>,
         away_goalie_id |-> IF override /\ is_home = 1 THEN e.goalieInNetId
                            ELSE away_goalie_id,
         home_goalie_id |-> IF override /\ is_home = 0 THEN e.goalieInNetId
                            ELSE home_goalie_id,
         typeCode |-> NaN, descKey |-> NaN, zoneStartSide_1 |-> NaN] @@ e

\* scrape.py 705-707: the columns of pbp_df a line-change row lacks
BlankRow ==
    [eventId |-> NaN, event |-> "", period |-> NaN, periodNumber |-> NaN,
     periodType |-> NaN,
     homeTeamDefendingSide |-> NaN, teamId |-> NaN, eventTeam |-> NaN,
     eventTeamType |-> "", xCoord |-> NaN, yCoord |-> NaN, xFixed |-> NaN,
     yFixed |-> NaN, awaySOG |-> NaN, homeSOG |-> NaN, awayScore |-> NaN,
     homeScore |-> NaN, goalieInNetId |-> NaN, playerId_1 |-> NaN,
     playerId_2 |-> NaN, playerId_3 |-> NaN, homeTeam |-> NaN, homeTeamId |-> NaN,
     awayTeamId |-> NaN, elapsedTime |-> 0, home_team_side |-> NaN,
     away_team_side |-> NaN, home_skaters |-> NaN, away_skaters |-> NaN,
     home_skater_id |-> <<>>, away_skater_id |-> <<>>, is_home |-> NaN,
     away_goalie_id |-> NaN, home_goalie_id |-> NaN, typeCode |-> NaN,
     descKey |-> NaN, zoneStartSide_1 |-> NaN]

\* scrape.py 690: the keys of sort_values(['playerId', 'event_time_s',
\* 'typeCode']); 'OFF' sorts before 'ON'
LineChangeKeys(rows) ==
    [i \in 1..Len(rows) |->
        << rows[i].playerId_1, <<rows[i].elapsedTime>>,
           IF rows[i].typeCode = <<"OFF">> THEN <<0>> ELSE <<1>> >>]

\* scrape.py 671-707: the shifts melted into ON and OFF line-change rows
reshaped_df(shifts_df) ==
    LET melted(code) ==
          [i \in 1..Len(shifts_df) |->
              LET s == shifts_df[i]
              IN  [eventId |-> <<s.id>>,
                   event |-> "line-change",
                   playerId_1 |-> s.playerId,
                   eventTeam |-> s.teamAbbrev,
                   teamId |-> s.teamId,
                   is_home |-> <<s.is_home>>,
                   zoneStartSide_1 |-> s.zoneStartSide,
                   typeCode |-> <<code>>,
                   descKey |-> IF code = "ON" THEN <<s.type_on>> ELSE <<s.type_off>>,
                   elapsedTime |-> IF code = "ON" THEN s.startTime_s ELSE s.endTime_s]
                  @@ BlankRow]
        rows == melted("ON") \o melted("OFF")
    IN  SortBy(rows, LineChangeKeys(rows))

\* scrape.py 734: the keys of sort_values(by=['elapsedTime', 'priority'])
TimelineKeys(rows) ==
    [i \in 1..Len(rows) |-> << <<rows[i].elapsedTime>>, rows[i].priority >>]

\* scrape.py 709-734: concat, eventTeamType / eventTeamId, priority, sort
Merged(pbp_df, line_changes) ==
    LET all == pbp_df \o line_changes
        tagged == [i \in 1..Len(all) |->
                      [eventTeamType |-> IF Eq(all[i].eventTeam, all[i].homeTeam)
                                         THEN "home" ELSE "away",
                       eventTeamId |-> IF Eq(all[i].eventTeam, all[i].homeTeam)
                                       THEN all[i].homeTeamId ELSE all[i].awayTeamId,
                       priority |-> event_priority(all[i].event)] @@ all[i]]
    IN  SortBy(tagged, TimelineKeys(tagged))

\* scrape.py 750-755: bfill(axis='rows') of the game-level columns
Backfilled(rows) ==
    LET n == Len(rows)
        col_homeTeam == bfill([i \in 1..n |-> rows[i].homeTeam])
        col_homeTeamId == bfill([i \in 1..n |-> rows[i].homeTeamId])
        col_awayTeamId == bfill([i \in 1..n |-> rows[i].awayTeamId])
        col_awayScore == bfill([i \in 1..n |-> rows[i].awayScore])
        col_homeScore == bfill([i \in 1..n |-> rows[i].homeScore])
        col_awaySOG == bfill([i \in 1..n |-> rows[i].awaySOG])
        col_homeSOG == bfill([i \in 1..n |-> rows[i].homeSOG])
        col_periodNumber == bfill([i \in 1..n |-> rows[i].periodNumber])
        col_side == bfill([i \in 1..n |-> rows[i].homeTeamDefendingSide])
    IN  [i \in 1..n |->
            [homeTeam |-> col_homeTeam[i], homeTeamId |-> col_homeTeamId[i],
             awayTeamId |-> col_awayTeamId[i], awayScore |-> col_awayScore[i],
             homeScore |-> col_homeScore[i], awaySOG |-> col_awaySOG[i],
             homeSOG |-> col_homeSOG[i], periodNumber |-> col_periodNumber[i],
             homeTeamDefendingSide |-> col_side[i]] @@ rows[i]]

Returned(fn, pbp_df, shifts_df) ==
    [fn |-> fn, status |-> "ok", pbp |-> pbp_df, shifts |-> shifts_df]

Raised(fn, exc) == [fn |-> fn, status |-> exc, pbp |-> <<>>, shifts |-> <<>>]

\* utils.py 416-463 and tools/utils.py 503-550: the three actor slots made
\* and filled from event_columns, then the names mapped from the slots
\* 1..last; a slot that was never made is a KeyError
EventPlayers(fn, plays, last) ==
    IF last > 3 THEN Raised(fn, "KeyError")
    ELSE Returned(fn,
                  [i \in 1..Len(plays) |->
                      [eventId |-> <<plays[i].eventId>>, event |-> plays[i].typeDescKey,
                       playerId_1 |-> event_player(plays[i], 1),
                       playerId_2 |-> event_player(plays[i], 2),
                       playerId_3 |-> event_player(plays[i], 3)]], <<>>)

\* utils.py 459: for i in range(1, 4)
process_event_players(plays) == EventPlayers("process_event_players", plays, 3)

\* tools/utils.py 546: for i in range(1, 5)
tools_process_event_players(plays) ==
    EventPlayers("tools_process_event_players", plays, 4)

\* scrape.py 245-263: the columns the plays of a feed are expected to make
og_cols ==
    {"eventId", "typeDescKey", "period", "periodType", "timeInPeriod",
     "homeTeamDefendingSide", "eventOwnerTeamId", "xCoord", "yCoord", "awaySOG",
     "homeSOG", "awayScore", "homeScore", "goalieInNetId", "details"}

\* scrape.py 214: the columns json_normalize makes, one per key some play has
pbp_columns(plays) == UNION {DOMAIN plays[i] : i \in 1..Len(plays)}

new_columns(plays) == pbp_columns(plays) \ og_cols

missing_columns(plays) == og_cols \ pbp_columns(plays)

\* scrape.py 214, 273-276: a play has NaN under a key it lacks, and the
\* expected columns no play has are created as NaN
CreateMissing(plays) ==
    [i \in 1..Len(plays) |->
        [c \in og_cols \cup pbp_columns(plays) |->
            IF c \in DOMAIN plays[i] THEN plays[i][c] ELSE NaN]]

\* scrape.py 369: the column names that contain 'Clip'
LikeClip ==
    {"details.highlightClipSharingUrl", "details.highlightClipSharingUrlFr",
     "details.highlightClip", "details.highlightClipFr", "details.discreteClip",
     "details.discreteClipFr", "details.highlightClipHD"}

clip_columns(columns) == columns \cap LikeClip

\* scrape.py 386: the new columns the drop leaves, carried by the event rows
\* from their plays; a line-change row has NaN under them
CarryNew(rows, plays) ==
    LET kept == new_columns(plays) \ clip_columns(pbp_columns(plays))
    IN  IF kept = {} THEN rows
        ELSE [i \in 1..Len(rows) |->
                 [c \in kept |-> IF rows[i].event # "line-change"
                                 THEN plays[Val(rows[i].eventId)][c] ELSE NaN]
                     @@ rows[i]]

\* the first play whose timeInPeriod does not convert, if any (scrape.py 419)
ClockError(plays) ==
    IF \A i \in 1..Len(plays) : clock_seconds(plays[i].timeInPeriod).status = "ok"
    THEN "ok"
    ELSE LET k == CHOOSE i \in 1..Len(plays) :
                    /\ clock_seconds(plays[i].timeInPeriod).status # "ok"
                    /\ \A j \in 1..(i - 1) : clock_seconds(plays[j].timeInPeriod).status = "ok"
         IN  clock_seconds(plays[k].timeInPeriod).status

\* scrape.py 192-764: scrape_pbp; a timeInPeriod column of NaN alone has no
\* .str (419), and the NaN of a play without the key has no [0]
scrape_pbp(g) ==
    IF g.rosterSpots = <<>> THEN Raised("scrape_pbp", "KeyError")
    ELSE IF ShiftsError(g) # "ok" THEN Raised("scrape_pbp", ShiftsError(g))
    ELSE IF UnexpectedEvents(g.plays) # {} THEN Raised("scrape_pbp", "ValueError")
    ELSE IF "timeInPeriod" \in missing_columns(g.plays)
         THEN Raised("scrape_pbp", "AttributeError")
    ELSE IF \E i \in 1..Len(g.plays) : "timeInPeriod" \notin DOMAIN g.plays[i]
         THEN Raised("scrape_pbp", "TypeError")
    ELSE LET plays == CreateMissing(g.plays)
             filled == [g EXCEPT !.plays = plays]
         IN  IF ClockError(plays) # "ok" THEN Raised("scrape_pbp", ClockError(plays))
             ELSE LET rosters_df == scrapeRosters(g)
                      events == FaceoffDotJoin(EventRows(filled))
                      shifts_df == ZoneStarts(JoinRoster(scrapeShiftsHTML(g), rosters_df),
                                              events)
                      pbp_df == [i \in 1..Len(events) |-> Annotate(events[i], shifts_df)]
                  IN  Returned("scrape_pbp",
                               CarryNew(Backfilled(Merged(pbp_df, reshaped_df(shifts_df))),
                                        plays),
                               shifts_df)

\* game.py 150-420: scrapeGameComplete, the event stage of scrape_pbp without
\* the merge; a ValueError is re-raised as ValueError, anything else as
\* Exception (game.py 414-419)
scrapeGameComplete(g) ==
    IF g.rosterSpots = <<>> THEN Raised("scrapeGameComplete", "Exception")
    ELSE IF UnexpectedEvents(g.plays) # {} THEN Raised("scrapeGameComplete", "ValueError")
    ELSE IF \E i \in 1..Len(g.plays) : "timeInPeriod" \notin DOMAIN g.plays[i]
         THEN Raised("scrapeGameComplete", "Exception")
    ELSE LET plays == CreateMissing(g.plays)
         IN  IF ClockError(plays) = "ValueError"
             THEN Raised("scrapeGameComplete", "ValueError")
             ELSE IF ClockError(plays) # "ok"
             THEN Raised("scrapeGameComplete", "Exception")
             ELSE Returned("scrapeGameComplete",
                           CarryNew(EventRows([g EXCEPT !.plays = plays]), plays), <<>>)

\* utils.py 26-67: validate_event_types returns None or raises ValueError
validate_event_types(plays) ==
    IF UnexpectedEvents(plays) # {} THEN Raised("validate_event_types", "ValueError")
    ELSE Returned("validate_event_types", <<>>, <<>>)

\* utils.py 466-492: fix_coordinates, on a frame that has eventTeamType,
\* homeTeamDefendingSide, xCoord and yCoord
fix_coordinates(df) ==
    Returned("fix_coordinates",
             [i \in 1..Len(df) |->
                 [xFixed |-> Fixed(df[i].xCoord, df[i].eventTeamType,
                                   df[i].homeTeamDefendingSide),
                  yFixed |-> Fixed(df[i].yCoord, df[i].eventTeamType,
                                   df[i].homeTeamDefendingSide)] @@ df[i]],
             <<>>)

\* scraper.py 1154: pl.json_normalize makes a column of a key only if some
\* play carries the key
CounterColumns == {"awaySOG", "homeSOG", "awayScore", "homeScore"}

\* scraper.py 1170-1216: NHLPlayByPlayParser.add_action_players, the counter
\* columns of the frame it returns
add_action_players(plays, rosters) ==
    LET n == Len(plays)
        columns_to_fill == {col \in CounterColumns :
                               \E i \in 1..n : notnull(plays[i][col])}
        filled(col) == IF rosters = <<>> THEN [i \in 1..n |-> plays[i][col]]
                       ELSE FillCounter([i \in 1..n |-> plays[i][col]])
    IN  Returned("add_action_players",
                 [i \in 1..n |->
                     [col \in columns_to_fill \cup {"eventId", "event"} |->
                         IF col = "eventId" THEN <<plays[i].eventId>>
                         ELSE IF col = "event" THEN plays[i].typeDescKey
                         ELSE filled(col)[i]]],
                 <<>>)

\* scraper.py 1351-1358: convert_str_to_sec of add_elapsed_time; a text that
\* is not two integers around one colon gives None
convert_str_to_sec(time_str) ==
    IF count(time_str, ":") >= 1
    THEN LET parts == split(time_str, ":")
         IN  IF Len(parts) = 2 /\ IsInt(parts[1]) /\ IsInt(parts[2])
             THEN <<int(parts[1]) * 60 + int(parts[2])>>
             ELSE NaN
    ELSE NaN

\* scraper.py 1348-1374: NHLPlayByPlayParser.add_elapsed_time
add_elapsed_time(plays) ==
    Returned("add_elapsed_time",
             [i \in 1..Len(plays) |->
                 LET timeInPeriod_s == convert_str_to_sec(plays[i].timeInPeriod)
                 IN  [eventId |-> <<plays[i].eventId>>,
                      event |-> plays[i].typeDescKey,
                      timeInPeriod_s |-> timeInPeriod_s,
                      elapsedTime |->
                          IF plays[i].periodType = "SO" THEN <<3900>>
                          ELSE IF isna(timeInPeriod_s) THEN NaN
                          ELSE <<Val(timeInPeriod_s) + (plays[i].period - 1) * 60 * 20>>]],
             <<>>)

(***************************************************************************)
(* The games the entry points are applied to.                              *)
(***************************************************************************)
\* scrape.py 213-217: rosterSpots of the play-by-play response
Roster ==
    << [playerId |-> 1, teamId |-> "H", sweaterNumber |-> 11, positionCode |-> "C"],
       [playerId |-> 2, teamId |-> "H", sweaterNumber |-> 12, positionCode |-> "D"],
       [playerId |-> 5, teamId |-> "H", sweaterNumber |-> 30, positionCode |-> "G"],
       [playerId |-> 6, teamId |-> "H", sweaterNumber |-> 31, positionCode |-> "G"],
       [playerId |-> 3, teamId |-> "A", sweaterNumber |-> 11, positionCode |-> "L"],
       [playerId |-> 4, teamId |-> "A", sweaterNumber |-> 12, positionCode |-> "D"],
       [playerId |-> 7, teamId |-> "A", sweaterNumber |-> 30, positionCode |-> "G"],
       [playerId |-> 8, teamId |-> "A", sweaterNumber |-> 31, positionCode |-> "G"] >>

\* a clock text "MM:SS" as the feed and the TOI reports write it
Clock(m, sec) == Pad02(m) \o <<":">> \o Pad02(sec)

ActorColumns ==
    {"winningPlayerId", "losingPlayerId", "hittingPlayerId", "hitteePlayerId",
     "shootingPlayerId", "blockingPlayerId", "scoringPlayerId", "assist1PlayerId",
     "assist2PlayerId", "playerId", "committedByPlayerId", "drawnByPlayerId",
     "servedByPlayerId"}

\* scrape.py 288: one play of the feed, flattened
Play(typeDescKey, timeInPeriod, owner) ==
    [eventId |-> 0, typeDescKey |-> typeDescKey, period |-> 1,
     periodType |-> "REG",
     timeInPeriod |-> timeInPeriod, homeTeamDefendingSide |-> "left",
     eventOwnerTeamId |-> owner, xCoord |-> NaN, yCoord |-> NaN,
     awaySOG |-> NaN, homeSOG |-> NaN, awayScore |-> NaN, homeScore |-> NaN,
     goalieInNetId |-> NaN, details |-> [c \in ActorColumns |-> NaN]]

\* the feed numbers its plays
Numbered(plays) == [i \in 1..Len(plays) |-> [plays[i] EXCEPT !.eventId = i]]

\* scrape.py 830-976: one shift row of a TOI report
Shift(is_home, sweaterNumber, start_elapsed, end_elapsed) ==
    [is_home |-> is_home, sweaterNumber |-> sweaterNumber, Period |-> 1,
     start_elapsed |-> start_elapsed, end_elapsed |-> end_elapsed]

Game(plays, shifts) ==
    [plays |-> Numbered(plays), rosterSpots |-> Roster, shifts |-> shifts]

SeqsUpTo(S, n) == UNION {[1..k -> S] : k \in 1..n}

\* plays of every kind the sort has to place, at two clocks, over two fixed
\* shifts whose boundaries fall on the same seconds
OrderPlays ==
    {Play(t, c, <<homeTeam.id>>) :
        t \in {"goal", "stoppage", "faceoff", "game-end", "shootout-complete",
               "unknown-event-xyz"},
        c \in {Clock(0, 0), Clock(0, 30)}}

OrderShifts ==
    << Shift(1, 11, Clock(0, 0), Clock(0, 30)), Shift(0, 30, Clock(0, 0), Clock(1, 0)) >>

OrderGames == {Game(plays, OrderShifts) : plays \in SeqsUpTo(OrderPlays, MaxPlays)}

\* a faceoff at 0:00 and a shot at 0:30, under every choice of shift rows of
\* a home skater, a home goalie and an away skater
FaceoffPlay(winner, loser, x, y) ==
    [Play("faceoff", Clock(0, 0), <<homeTeam.id>>) EXCEPT
        !.xCoord = <<x>>, !.yCoord = <<y>>,
        !.details = [c \in ActorColumns |->
                        IF c = "winningPlayerId" THEN <<winner>>
                        ELSE IF c = "losingPlayerId" THEN <<loser>> ELSE NaN]]

ShotPlay(owner, shooter, goalie) ==
    [Play("shot-on-goal", Clock(0, 30), owner) EXCEPT
        !.goalieInNetId = goalie, !.homeSOG = <<1>>, !.awaySOG = <<0>>,
        !.details = [c \in ActorColumns |->
                        IF c = "shootingPlayerId" THEN <<shooter>> ELSE NaN]]

Intervals ==
    { <<Clock(0, 0), Clock(0, 30)>>, <<Clock(0, 30), Clock(1, 0)>>,
      <<Clock(0, 0), Clock(1, 0)>>, <<Clock(0, 30), Clock(0, 0)>> }

OnIceGames ==
    {Game(<<FaceoffPlay(1, 3, 0, 0), ShotPlay(<<homeTeam.id>>, 1, <<7>>)>>, shifts) :
        shifts \in SeqsUpTo({Shift(side_no[1], side_no[2], iv[1], iv[2]) :
                                 side_no \in { <<1, 11>>, <<1, 30>>, <<0, 11>> },
                                 iv \in Intervals}, MaxShifts)}

\* two consecutive shifts under one heading
TwoShifts(is_home, sweaterNumber, a, b, c) ==
    << Shift(is_home, sweaterNumber, a, b), Shift(is_home, sweaterNumber, b, c) >>

\* the four goalies, each with no shift, two shifts over the whole minute or
\* two shifts over its second half, and a skater at the end of either report,
\* under every shot the feed can describe
GoalieShift(is_home, sweaterNumber, choice) ==
    CASE choice = "none" -> <<>>
      [] choice = "whole" ->
            TwoShifts(is_home, sweaterNumber, Clock(0, 0), Clock(0, 30), Clock(1, 0))
      [] choice = "late" ->
            TwoShifts(is_home, sweaterNumber, Clock(0, 30), Clock(0, 45), Clock(1, 0))

GoalieGames ==
    {Game(<<FaceoffPlay(1, 3, 0, 0), ShotPlay(owner, 1, goalie)>>,
          GoalieShift(1, 30, c[1]) \o GoalieShift(1, 31, c[2])
              \o << Shift(1, 11, Clock(0, 0), Clock(1, 0)) >>
              \o GoalieShift(0, 30, c[3]) \o GoalieShift(0, 31, c[4])
              \o << Shift(0, 11, Clock(0, 0), Clock(1, 0)) >>) :
        owner \in {NaN, <<homeTeam.id>>, <<awayTeam.id>>},
        goalie \in {NaN, <<5>>, <<7>>},
        c \in [1..4 -> {"none", "whole", "late"}]}

\* feeds whose counters are missing on some plays
CounterPlay(kind) ==
    CASE kind = "none" -> Play("faceoff", Clock(0, 0), <<homeTeam.id>>)
      [] kind = "first" -> [Play("goal", Clock(0, 0), <<homeTeam.id>>) EXCEPT
                               !.homeScore = <<1>>, !.awayScore = <<0>>,
                               !.awaySOG = <<1>>]
      [] kind = "second" -> [Play("goal", Clock(0, 0), <<homeTeam.id>>) EXCEPT
                               !.homeScore = <<2>>, !.awayScore = <<0>>,
                               !.homeSOG = <<3>>]

FillGames ==
    {Game([i \in 1..Len(kinds) |-> CounterPlay(kinds[i])], OrderShifts) :
        kinds \in SeqsUpTo({"none", "first", "second"}, MaxFillPlays)}

\* a response without roster spots
NoRosterGames ==
    {[g EXCEPT !.rosterSpots = <<>>] :
        g \in {h \in FillGames : Len(h.plays) = 1}}

\* one play of either team, or of none, at every raw coordinate
CoordGames ==
    {Game(<< [Play(t, Clock(0, 0), owner) EXCEPT
                 !.homeTeamDefendingSide = side, !.xCoord = x, !.yCoord = y] >>, OrderShifts) :
        t \in {"faceoff", "shot-on-goal"},
        owner \in {NaN, <<homeTeam.id>>, <<awayTeam.id>>},
        side \in {"left", "right"},
        x \in {NaN, <<25>>, <<0 - 69>>, <<0>>},
        y \in {NaN, <<10>>, <<22>>}}

\* the one-period game of the end-to-end scenario: a faceoff at 0:00, a shot
\* by home skater 1 at 0:30, one shift for each of the skaters 1, 2, 3 and 4
ScenarioGames ==
    {Game(<<FaceoffPlay(w[1], w[2], 0, 0), ShotPlay(<<homeTeam.id>>, 1, <<7>>)>>,
          << Shift(1, 11, iv[1][1], iv[1][2]), Shift(1, 12, iv[2][1], iv[2][2]),
             Shift(0, 11, iv[3][1], iv[3][2]), Shift(0, 12, iv[4][1], iv[4][2]) >>) :
        w \in { <<1, 3>>, <<3, 1>> },
        iv \in [1..4 -> Intervals \ { <<Clock(0, 30), Clock(0, 0)>> }]}

\* one play of every period and period type, at two clocks
PeriodGames ==
    {Game(<< [Play("goal", c, <<homeTeam.id>>) EXCEPT
                 !.period = n, !.periodType = t] >>, OrderShifts) :
        n \in {1, 2, 4, 5}, t \in {"REG", "OT", "SO"},
        c \in {Clock(0, 0), Clock(0, 30)}}

\* a faceoff and a goal whose feed has drifted: an expected column no play
\* has, or a key of the goal that is not an expected column
Drifted(play, missing, extra) ==
    [c \in DOMAIN play \ missing |-> play[c]] @@ extra

DriftGames ==
    {[Game(<<Play("faceoff", Clock(0, 0), <<homeTeam.id>>),
             Play("goal", Clock(0, 30), <<homeTeam.id>>)>>, OrderShifts)
        EXCEPT !.plays = <<Drifted(@[1], missing, <<>>), Drifted(@[2], missing, extra)>>] :
        missing \in {{}, {"timeInPeriod"}, {"goalieInNetId"}, {"xCoord", "yCoord"}},
        extra \in {<<>>, [c \in {"details.xG"} |-> <<5>>],
                   [c \in {"details.highlightClipHD"} |-> <<5>>]}}

\* a shot at 0:30 with two skaters of each side on the ice, their headings
\* in either order
SlotGames ==
    {Game(<<ShotPlay(<<homeTeam.id>>, 1, <<7>>)>>,
          TwoShifts(1, h[1], Clock(0, 0), Clock(0, 30), Clock(1, 0))
              \o TwoShifts(1, h[2], Clock(0, 0), Clock(0, 30), Clock(1, 0))
              \o TwoShifts(0, a[1], Clock(0, 0), Clock(0, 30), Clock(1, 0))
              \o TwoShifts(0, a[2], Clock(0, 0), Clock(0, 30), Clock(1, 0))) :
        h \in { <<11, 12>>, <<12, 11>> }, a \in { <<11, 12>>, <<12, 11>> }}

\* a faceoff at 0:00 on a dot of either end, on a neutral dot or off the
\* dots, with a home and an away skater starting there and an away skater
\* starting at 0:30, where there is no faceoff
ZoneGames ==
    {Game(<< [FaceoffPlay(1, 3, xy[1], xy[2]) EXCEPT !.homeTeamDefendingSide = side] >>,
          << Shift(1, 11, Clock(0, 0), Clock(1, 0)), Shift(0, 11, Clock(0, 0), Clock(1, 0)),
             Shift(0, 12, Clock(0, 30), Clock(1, 0)) >>) :
        xy \in { <<69, 22>>, <<0 - 69, 0 - 5>>, <<20, 22>>, <<25, 10>> },
        side \in {"left", "right"}}

\* one play of every type of the actor table and one of none, every detail
\* column holding an id of its own
ActorGames ==
    {Game(<< [Play(t, Clock(0, 30), <<homeTeam.id>>) EXCEPT
                 !.details = [c \in ActorColumns |->
                     LET cols == <<"winningPlayerId", "losingPlayerId", "hittingPlayerId",
                                   "hitteePlayerId", "shootingPlayerId", "blockingPlayerId",
                                   "scoringPlayerId", "assist1PlayerId", "assist2PlayerId",
                                   "playerId", "committedByPlayerId", "drawnByPlayerId",
                                   "servedByPlayerId">>
                     IN  <<CHOOSE k \in 1..Len(cols) : cols[k] = c>>]] >>, OrderShifts) :
        t \in {"faceoff", "hit", "blocked-shot", "shot-on-goal", "missed-shot",
               "failed-shot-attempt", "goal", "giveaway", "takeaway", "penalty",
               "stoppage"}}

\* a faceoff at 0:00 and a home goal at 0:30, with one home shift that starts
\* and ends before the goal, around it or after it
CarryGames ==
    {Game(<< Play("faceoff", Clock(0, 0), <<homeTeam.id>>),
             [Play("goal", Clock(0, 30), <<homeTeam.id>>) EXCEPT
                 !.homeScore = <<1>>, !.awayScore = <<0>>,
                 !.homeSOG = <<1>>, !.awaySOG = <<0>>] >>,
          << Shift(1, 11, iv[1], iv[2]), Shift(0, 30, Clock(0, 0), Clock(1, 0)) >>) :
        iv \in { <<Clock(0, 10), Clock(0, 20)>>, <<Clock(0, 10), Clock(0, 40)>>,
                 <<Clock(0, 40), Clock(0, 50)>> }}

\* the end of period 1 at 20:00 and the start of period 2 at 0:00, with or
\* without the faceoff that opens period 2
BoundaryGames ==
    {Game(<< Play("period-end", Clock(20, 0), NaN),
             [Play("period-start", Clock(0, 0), NaN) EXCEPT !.period = 2] >> \o opening,
          OrderShifts) :
        opening \in { <<>>,
                      << [Play("faceoff", Clock(0, 0), <<homeTeam.id>>) EXCEPT !.period = 2] >> }}

\* a game whose roster has two home players with sweater 11
TwinRosterGames ==
    {[Game(<<ShotPlay(<<homeTeam.id>>, 1, <<7>>)>>,
           << Shift(1, 11, Clock(0, 0), Clock(1, 0)), Shift(0, 30, Clock(0, 0), Clock(1, 0)) >>)
        EXCEPT !.rosterSpots = @ \o << [teamId |-> homeTeam.id, playerId |-> 9,
                                         sweaterNumber |-> 11, positionCode |-> "R"] >>]}

\* a shot at 0:30; the home report has the headings of #11, #12 and #30 in
\* that order, each with its shifts numbered from 1 (those of #12 and #30
\* may be missing), and the away report one shift of #30
ReportGames ==
    {Game(<<ShotPlay(<<homeTeam.id>>, 1, <<7>>)>>,
          Flatten([q \in 1..3 |->
              [k \in 1..n[q] |->
                  Shift(1, <<11, 12, 30>>[q], Clock(0, 20 * (k - 1) + q),
                        Clock(0, 20 * (k - 1) + q + 10))]])
              \o << Shift(0, 30, Clock(0, 0), Clock(1, 0)) >>) :
        n \in {m \in [1..3 -> 0..MaxReportShifts] : m[1] >= 1}}

Games == OrderGames \cup OnIceGames \cup GoalieGames \cup FillGames
            \cup NoRosterGames \cup CoordGames \cup ScenarioGames
            \cup PeriodGames \cup SlotGames \cup ZoneGames \cup ActorGames
            \cup CarryGames \cup BoundaryGames \cup TwinRosterGames
            \cup ReportGames

(***************************************************************************)
(* The entry points as a state machine: a game is there to be scraped and  *)
(* ret is what the last call returned or raised.  Here every call runs the *)
(* body of its entry point, as the first call of a process does; the       *)
(* lru_cache around scrape_pbp and scrapeGameComplete is the subject of    *)
(* the state machine that follows this one.                                *)
(***************************************************************************)
\* scrapeDraft has not been called
NoDraft ==
    [year |-> [type |-> "none", n |-> 0, s |-> ""],
     round |-> [type |-> "none", n |-> 0, s |-> ""], response |-> "none", sent |-> 0]

\* no NHLTOIScraper has been built
NoToi ==
    [progress |-> FALSE, pages |-> <<>>, done |-> <<>>, results |-> <<>>,
     status |-> "none", TOI_combined |-> <<>>, game_details |-> {}]

\* no NHL Edge scrape has been called
NoEdge ==
    [fn |-> "none", lines |-> 0, page |-> "none", pc |-> "none", tries |-> 0,
     attempt |-> 0, calls |-> 0, waits |-> <<>>, result |-> "none"]

\* no NHLPBPProcessor has been built
NoBatch ==
    [progress |-> FALSE, feeds |-> <<>>, done |-> <<>>, results |-> <<>>,
     status |-> "none", out |-> <<>>]

\* scrape.py 192 / game.py 150: an lru_cache that holds nothing yet
NoCache ==
    [scrape_pbp |-> [fn |-> "none", status |-> "none", pbp |-> <<>>, shifts |-> <<>>],
     scrapeGameComplete |->
         [fn |-> "none", status |-> "none", pbp |-> <<>>, shifts |-> <<>>]]

\* scrape.py 288 / game.py 173: the frame json_normalize makes of the plays,
\* with the team type of scrape.py 430
PlaysFrame(g) ==
    [i \in 1..Len(g.plays) |->
        [eventTeamType |-> eventTeamType(abbrev_dict(g.plays[i].eventOwnerTeamId))]
            @@ g.plays[i]]

ScrapePbp ==
    /\ ret' = scrape_pbp(game)
    /\ UNCHANGED <<text, steps, game, cache, batch, draft, toi, edge>>

ScrapeGameComplete ==
    /\ ret' = scrapeGameComplete(game)
    /\ UNCHANGED <<text, steps, game, cache, batch, draft, toi, edge>>

ValidateEventTypes ==
    /\ ret' = validate_event_types(game.plays)
    /\ UNCHANGED <<text, steps, game, cache, batch, draft, toi, edge>>

FixCoordinates ==
    /\ ret' = fix_coordinates(PlaysFrame(game))
    /\ UNCHANGED <<text, steps, game, cache, batch, draft, toi, edge>>

AddActionPlayers ==
    /\ ret' = add_action_players(game.plays, game.rosterSpots)
    /\ UNCHANGED <<text, steps, game, cache, batch, draft, toi, edge>>

AddElapsedTime ==
    /\ ret' = add_elapsed_time(game.plays)
    /\ UNCHANGED <<text, steps, game, cache, batch, draft, toi, edge>>

ProcessEventPlayers ==
    /\ ret' = process_event_players(game.plays)
    /\ UNCHANGED <<text, steps, game, cache, batch, draft, toi, edge>>

ToolsProcessEventPlayers ==
    /\ ret' = tools_process_event_players(game.plays)
    /\ UNCHANGED <<text, steps, game, cache, batch, draft, toi, edge>>

InitMerge ==
    /\ text = <<>>
    /\ steps = <<>>
    /\ game \in Games
    /\ ret = [fn |-> "none", status |-> "none", pbp |-> <<>>, shifts |-> <<>>]
    /\ cache = NoCache
    /\ batch = NoBatch
    /\ draft = NoDraft
    /\ toi = NoToi
    /\ edge = NoEdge

NextMerge ==
    \/ ScrapePbp
    \/ ScrapeGameComplete
    \/ ValidateEventTypes
    \/ FixCoordinates
    \/ AddActionPlayers
    \/ AddElapsedTime
    \/ ProcessEventPlayers
    \/ ToolsProcessEventPlayers

SpecMerge == InitMerge /\ [][NextMerge]_vars

(***************************************************************************)
(* The cached entry points.  lru_cache keys a call on the game id and      *)
(* hands every later call the very tuple of frames the first call made, so *)
(* the frames a caller holds and the frames in the cache are the same      *)
(* objects; a call that raises stores nothing.  Upstream, the feed of a    *)
(* game in progress grows between calls.                                   *)
(***************************************************************************)
\* scrape.py 192-193: scrape_pbp behind its lru_cache
CallScrapePbp ==
    /\ LET hit == cache.scrape_pbp.status = "ok"
           r == IF hit THEN cache.scrape_pbp ELSE scrape_pbp(game)
       IN  /\ ret' = r
           /\ cache' = IF r.status = "ok" THEN [cache EXCEPT !.scrape_pbp = r]
                       ELSE cache
    /\ UNCHANGED <<text, steps, game, batch, draft, toi, edge>>

\* game.py 150-151: scrapeGameComplete behind its lru_cache
CallScrapeGameComplete ==
    /\ LET hit == cache.scrapeGameComplete.status = "ok"
           r == IF hit THEN cache.scrapeGameComplete ELSE scrapeGameComplete(game)
       IN  /\ ret' = r
           /\ cache' = IF r.status = "ok" THEN [cache EXCEPT !.scrapeGameComplete = r]
                       ELSE cache
    /\ UNCHANGED <<text, steps, game, batch, draft, toi, edge>>

\* scrape.py 764 / game.py 412: the caller empties, in place, the
\* play-by-play frame the last call returned (pbp_df.drop(pbp_df.index,
\* inplace=True)); the frame is the one the cache holds
CallerEmptiesFrame ==
    /\ ret.status = "ok"
    /\ ret.pbp # <<>>
    /\ ret' = [ret EXCEPT !.pbp = <<>>]
    /\ cache' = [cache EXCEPT ![ret.fn] = [ret EXCEPT !.pbp = <<>>]]
    /\ UNCHANGED <<text, steps, game, batch, draft, toi, edge>>

\* scrape.py 213-214: the feed of a game in progress has one more play
FeedGrows ==
    /\ Len(game.plays) <= MaxPlays
    /\ game' = [game EXCEPT !.plays =
                    Numbered(Append(game.plays, Play("goal", Clock(0, 30), <<homeTeam.id>>)))]
    /\ UNCHANGED <<text, steps, ret, cache, batch, draft, toi, edge>>

InitCache ==
    /\ text = <<>>
    /\ steps = <<>>
    /\ game \in {g \in OrderGames : Len(g.plays) = 1} \cup DriftGames
    /\ ret = [fn |-> "none", status |-> "none", pbp |-> <<>>, shifts |-> <<>>]
    /\ cache = NoCache
    /\ batch = NoBatch
    /\ draft = NoDraft
    /\ toi = NoToi
    /\ edge = NoEdge

NextCache ==
    \/ CallScrapePbp
    \/ CallScrapeGameComplete
    \/ CallerEmptiesFrame
    \/ FeedGrows

SpecCache == InitCache /\ [][NextCache]_vars

(***************************************************************************)
(* NHLPBPProcessor (scraper.py 1418-1537): one task per game id, each      *)
(* task a process_single_game; the tasks finish in any order.  A feed is   *)
(* what the two requests of a game give: the plays, or the error of a      *)
(* request that failed.                                                    *)
(***************************************************************************)
FetchError == [status |-> "ClientError", html |-> <<>>, plays |-> <<>>]
Fetched(html, plays) == [status |-> "ok", html |-> html, plays |-> Numbered(plays)]

\* the report and the API plays of a game: a goal; a faceoff and a goal after
\* the pre-game row; a coach's challenge (CHL) before a goal
BatchFeeds ==
    {FetchError,
     Fetched(<<"GOAL">>, <<Play("goal", Clock(0, 30), <<homeTeam.id>>)>>),
     Fetched(<<"PGSTR", "FAC", "GOAL">>,
             <<Play("faceoff", Clock(0, 0), <<awayTeam.id>>),
               Play("goal", Clock(0, 30), <<awayTeam.id>>)>>),
     Fetched(<<"CHL", "GOAL">>,
             <<Play("unknown-event-xyz", Clock(0, 0), NaN),
               Play("goal", Clock(0, 30), <<homeTeam.id>>)>>)}

\* scraper.py 1008-1023 with the default of 1160: the label of a report code
event_mapping(Event) ==
    CASE Event = "BLOCK" -> "blocked-shot"
      [] Event = "DELPEN" -> "delayed-penalty"
      [] Event = "FAC" -> "faceoff"
      [] Event = "GIVE" -> "giveaway"
      [] Event = "GOAL" -> "goal"
      [] Event = "HIT" -> "hit"
      [] Event = "MISS" -> "missed-shot"
      [] Event = "PENL" -> "penalty"
      [] Event = "SHOT" -> "shot-on-goal"
      [] Event = "STOP" -> "stoppage"
      [] Event = "TAKE" -> "takeaway"
      [] Event = "GEND" -> "game-end"
      [] Event = "PEND" -> "period-end"
      [] Event = "PSTR" -> "period-start"
      [] Event = "SOC" -> "shootout-completed"
      [] OTHER -> "unknown"

\* scraper.py 1151-1168: the report rows but the pre-game ones, numbered and
\* labelled, left-joined to the API plays on (index, event); a row without a
\* play of its index and label is kept, its API columns null
merge_with_api(df, plays) ==
    LET kept == SelectSeq(df, LAMBDA Event : Event \notin {"ANTHEM", "PGEND", "PGSTR"})
    IN  [i \in 1..Len(kept) |->
            LET event == event_mapping(kept[i])
                hit == i <= Len(plays) /\ plays[i].typeDescKey = event
            IN  [index |-> i - 1, Event |-> kept[i], event |-> event,
                 typeDescKey |-> IF hit THEN <<plays[i].typeDescKey>> ELSE NaN,
                 elapsedTime |-> IF hit
                                 THEN add_elapsed_time(<<plays[i]>>).pbp[1].elapsedTime
                                 ELSE NaN]]

\* scraper.py 1432-1512: the body of the try; the rows carry the game id
TryBody(game_id, feed) ==
    IF feed.status # "ok"
    THEN Raised("process_single_game", feed.status)
    ELSE LET df == merge_with_api(feed.html, feed.plays)
         IN  Returned("process_single_game",
                      [i \in 1..Len(df) |-> [gameId |-> game_id] @@ df[i]], <<>>)

RaisesToCaller(game_id, feed) == TryBody(game_id, feed)

\* scraper.py 1429-1516: any Exception of the body becomes an empty frame
process_single_game(game_id, feed) ==
    LET r == TryBody(game_id, feed)
    IN  IF r.status = "ok" THEN r
        ELSE Returned("process_single_game", <<>>, <<>>)

\* scraper.py 1525-1527: a task finishes; with progress its result is awaited
\* and appended at once, and an exception of the task leaves the call there
TaskCompletes ==
    /\ batch.status = "running"
    /\ \E i \in (1..Len(batch.feeds)) \ DOMAIN batch.done :
          LET r == process_single_game(i, batch.feeds[i])
          IN  batch' =
                  IF batch.progress /\ r.status # "ok"
                  THEN [batch EXCEPT !.done = (i :> r) @@ @, !.status = r.status]
                  ELSE [batch EXCEPT !.done = (i :> r) @@ @,
                                     !.results = IF batch.progress
                                                 THEN Append(@, r) ELSE @]
    /\ UNCHANGED <<text, steps, game, ret, cache, draft, toi, edge>>

\* scraper.py 1530-1537: gather hands the results in task order, exceptions
\* among them; the frames that are not empty are concatenated
Concat ==
    /\ batch.status = "running"
    /\ DOMAIN batch.done = 1..Len(batch.feeds)
    /\ LET results == IF batch.progress THEN batch.results
                      ELSE [i \in 1..Len(batch.feeds) |-> batch.done[i]]
           valid_dfs == SelectSeq(results,
                                  LAMBDA df : df.status = "ok" /\ df.pbp # <<>>)
       IN  batch' = [batch EXCEPT
                        !.results = results,
                        !.status = "ok",
                        !.out = Flatten([k \in 1..Len(valid_dfs) |-> valid_dfs[k].pbp])]
    /\ UNCHANGED <<text, steps, game, ret, cache, draft, toi, edge>>

InitBatch ==
    /\ text = <<>>
    /\ steps = <<>>
    /\ game = [plays |-> <<>>, rosterSpots |-> <<>>, shifts |-> <<>>]
    /\ ret = [fn |-> "none", status |-> "none", pbp |-> <<>>, shifts |-> <<>>]
    /\ cache = NoCache
    /\ draft = NoDraft
    /\ toi = NoToi
    /\ edge = NoEdge
    /\ \E progress \in BOOLEAN, feeds \in [1..MaxBatch -> BatchFeeds] :
          batch = [progress |-> progress, feeds |-> feeds, done |-> <<>>,
                   results |-> <<>>, status |-> "running", out |-> <<>>]

NextBatch ==
    \/ TaskCompletes
    \/ Concat

SpecBatch == InitBatch /\ [][NextBatch]_vars

(***************************************************************************)
(* NHLTOIScraper (scraper.py 715-970).  pages[i] is what the two report    *)
(* pages of game i do to _fetch_and_parse_team_toi: "shifts" is a page     *)
(* that is parsed into shift rows, "error" one on which goto or the        *)
(* parsing raises, "no_page" one for which browser.new_page() raises.      *)
(***************************************************************************)
\* scraper.py 767-926: an exception of the body is caught and printed (922),
\* the frame of the side stays None; but when new_page itself raised, `page`
\* in the finally clause (926) is unbound, and that error leaves the helper
_fetch_and_parse_team_toi(game_id, team_l, page) ==
    IF page = "no_page" THEN [status |-> "UnboundLocalError", TOI |-> <<>>]
    ELSE IF page = "error" THEN [status |-> "ok", TOI |-> <<>>]
    ELSE [status |-> "ok", TOI |-> << [gameId |-> game_id, HV |-> team_l] >>]

\* scraper.py 726-765: gather re-raises what a helper raised; pl.concat of
\* an empty list, when neither side has a frame, is a ValueError
scrape_toi_single_game(game_id, pages) ==
    LET home == _fetch_and_parse_team_toi(game_id, "H", pages[1])
        away == _fetch_and_parse_team_toi(game_id, "V", pages[2])
    IN  IF home.status # "ok" THEN [status |-> home.status, TOI_combined |-> <<>>]
        ELSE IF away.status # "ok" THEN [status |-> away.status, TOI_combined |-> <<>>]
        ELSE IF away.TOI \o home.TOI = <<>>
             THEN [status |-> "ValueError", TOI_combined |-> <<>>]
        ELSE [status |-> "ok", TOI_combined |-> away.TOI \o home.TOI]

\* scraper.py 933-938: a task finishes; with progress its result is awaited
\* and appended at once, and an exception of the task leaves the call there
ToiTaskCompletes ==
    /\ toi.status = "running"
    /\ \E i \in (1..Len(toi.pages)) \ DOMAIN toi.done :
          LET r == scrape_toi_single_game(i, toi.pages[i])
          IN  toi' =
                  IF toi.progress /\ r.status # "ok"
                  THEN [toi EXCEPT !.done = (i :> r) @@ @, !.status = r.status]
                  ELSE [toi EXCEPT !.done = (i :> r) @@ @,
                                   !.results = IF toi.progress
                                               THEN Append(@, [GameId |-> i] @@ r) ELSE @]
    /\ UNCHANGED <<text, steps, game, ret, cache, batch, draft, edge>>

\* scraper.py 939-970: gather(return_exceptions=True) hands the results in
\* task order, exceptions among them; the dicts with a frame that is not
\* empty are the valid results
scrape_toi_multiple_games ==
    /\ toi.status = "running"
    /\ DOMAIN toi.done = 1..Len(toi.pages)
    /\ LET results == IF toi.progress THEN toi.results
                      ELSE [i \in 1..Len(toi.pages) |-> [GameId |-> i] @@ toi.done[i]]
           valid_results == SelectSeq(results,
                                LAMBDA r : r.status = "ok" /\ r.TOI_combined # <<>>)
       IN  toi' = [toi EXCEPT
                      !.results = results,
                      !.status = "ok",
                      !.TOI_combined =
                          Flatten([k \in 1..Len(valid_results) |->
                                      valid_results[k].TOI_combined]),
                      !.game_details =
                          {valid_results[k].GameId : k \in 1..Len(valid_results)}]
    /\ UNCHANGED <<text, steps, game, ret, cache, batch, draft, edge>>

InitToi ==
    /\ text = <<>>
    /\ steps = <<>>
    /\ game = [plays |-> <<>>, rosterSpots |-> <<>>, shifts |-> <<>>]
    /\ ret = [fn |-> "none", status |-> "none", pbp |-> <<>>, shifts |-> <<>>]
    /\ cache = NoCache
    /\ batch = NoBatch
    /\ draft = NoDraft
    /\ edge = NoEdge
    /\ \E progress \in BOOLEAN, pages \in [1..MaxBatch ->
              { <<"shifts", "shifts">>, <<"error", "shifts">>, <<"error", "error">>,
                <<"no_page", "shifts">> }] :
          toi = [NoToi EXCEPT !.progress = progress, !.pages = pages,
                              !.status = "running"]

NextToi ==
    \/ ToiTaskCompletes
    \/ scrape_toi_multiple_games

SpecToi == InitToi /\ [][NextToi]_vars

(***************************************************************************)
(* scrapeSkaterOverview and scrapeSkaterSpeed under retry_on_failure       *)
(* (nhledge/skater/overview.py, speed.py).  edge.lines is the number of    *)
(* lines of the section's text, edge.page what loading the page does,      *)
(* edge.calls the number of times the wrapper has called the function and  *)
(* edge.waits the seconds it has slept between calls.                      *)
(***************************************************************************)
max_attempts == 3
delay == 2

\* overview.py 101-110, speed.py 98: len(METRICS)
MetricsCount(fn) == IF fn = "scrapeSkaterOverview" THEN 8 ELSE 4

\* overview.py 149, speed.py 136: the lines that are read, [3:11] of them in
\* scrapeSkaterOverview
text_lines(fn, lines) ==
    IF fn = "scrapeSkaterSpeed" THEN lines
    ELSE IF lines <= 3 THEN 0
    ELSE IF lines >= 11 THEN 8
    ELSE lines - 3

\* overview.py 188-190, speed.py 187-189: `except Exception` around the whole
\* body logs the exception and returns None
Caught(exc) == [raised |-> FALSE, value |-> "None"]

\* overview.py 47-58: the wrapper, given what call number attempt + 1 of the
\* function did: its value is returned; an exception is raised again on
\* the last attempt, and slept on for delay * 2 ** attempt otherwise
retry_on_failure(e, outcome) ==
    IF ~outcome.raised
    THEN [e EXCEPT !.pc = "done", !.calls = @ + 1, !.result = outcome.value]
    ELSE IF e.attempt = max_attempts - 1
    THEN [e EXCEPT !.pc = "done", !.calls = @ + 1, !.result = "raised"]
    ELSE [e EXCEPT !.pc = "setup", !.calls = @ + 1, !.tries = 0,
                   !.attempt = @ + 1, !.waits = Append(@, delay * (2 ^ e.attempt))]

\* overview.py 119-127: up to three calls of setup_chrome_driver, which
\* returns None when it cannot make a driver; without a driver after the
\* third the body raises WebDriverException
SetupDriver ==
    /\ edge.pc = "setup"
    /\ \E driver \in BOOLEAN :
          edge' = IF driver THEN [edge EXCEPT !.pc = "get", !.tries = @ + 1]
                  ELSE IF edge.tries + 1 < 3 THEN [edge EXCEPT !.tries = @ + 1]
                  ELSE retry_on_failure([edge EXCEPT !.tries = @ + 1],
                                        Caught("WebDriverException"))
    /\ UNCHANGED <<text, steps, game, ret, cache, batch, draft, toi>>

\* overview.py 130-142: driver.get and the wait for the section
LoadPage ==
    /\ edge.pc = "get"
    /\ edge' = IF edge.page = "loads" THEN [edge EXCEPT !.pc = "parse"]
               ELSE retry_on_failure(edge, Caught("TimeoutException"))
    /\ UNCHANGED <<text, steps, game, ret, cache, batch, draft, toi>>

\* overview.py 147-186: the lines against the metrics, then the frame
ParseSection ==
    /\ edge.pc = "parse"
    /\ edge' = IF text_lines(edge.fn, edge.lines) # MetricsCount(edge.fn)
               THEN retry_on_failure(edge, Caught("ValueError"))
               ELSE retry_on_failure(edge, [raised |-> FALSE, value |-> "frame"])
    /\ UNCHANGED <<text, steps, game, ret, cache, batch, draft, toi>>

InitEdge ==
    /\ text = <<>>
    /\ steps = <<>>
    /\ game = [plays |-> <<>>, rosterSpots |-> <<>>, shifts |-> <<>>]
    /\ ret = [fn |-> "none", status |-> "none", pbp |-> <<>>, shifts |-> <<>>]
    /\ cache = NoCache
    /\ batch = NoBatch
    /\ draft = NoDraft
    /\ toi = NoToi
    /\ \E fn \in {"scrapeSkaterOverview", "scrapeSkaterSpeed"}, lines \in 1..MaxLines,
          page \in {"loads", "times out"} :
          edge = [NoEdge EXCEPT !.fn = fn, !.lines = lines, !.page = page,
                                !.pc = "setup"]

NextEdge ==
    \/ SetupDriver
    \/ LoadPage
    \/ ParseSection

SpecEdge == InitEdge /\ [][NextEdge]_vars

(***************************************************************************)
(* scrapeDraft (draft.py 24-87).  An argument is a Python value with its   *)
(* type; the response is what requests.get meets: no connection, a bad     *)
(* status, a JSON body without 'picks', or one with picks.                 *)
(***************************************************************************)
PyInt(n) == [type |-> "int", n |-> n, s |-> ""]
PyStr(s) == [type |-> "str", n |-> 0, s |-> s]

DraftYears == {PyStr("2023"), PyInt(1962), PyInt(1963), PyInt(2004), PyInt(2005)}

DraftRounds ==
    {PyStr("all"), PyStr("first")} \cup {PyInt(n) : n \in {0, 1, 7, 8, 25, 26}}

DraftResponses == {"ConnectionError", "404", "no picks", "picks"}

\* draft.py 44-58: the argument checks, made before the URL is built
ArgumentsValid(year, round) ==
    /\ year.type = "int" /\ year.n >= 1963
    /\ IF round.type = "int"
       THEN /\ ~(year.n < 2005 /\ (round.n < 1 \/ round.n > 25))
            /\ ~(year.n >= 2005 /\ (round.n < 1 \/ round.n > 7))
       ELSE round = PyStr("all")

\* draft.py 60-87: the request and the handlers around it; the KeyError of
\* a body without 'picks' is raised inside the try and leaves it as ValueError
scrapeDraft(year, round, response) ==
    IF ~ArgumentsValid(year, round)
    THEN [sent |-> 0, call |-> Raised("scrapeDraft", "ValueError")]
    ELSE [sent |-> 1,
          call |-> CASE response \in {"ConnectionError", "404"} ->
                            Raised("scrapeDraft", "HTTPError")
                     [] response = "no picks" -> Raised("scrapeDraft", "ValueError")
                     [] OTHER -> Returned("scrapeDraft",
                                          << [meta_year |-> year, meta_round |-> round] >>,
                                          <<>>)]

ScrapeDraft ==
    /\ LET r == scrapeDraft(draft.year, draft.round, draft.response)
       IN  /\ ret' = r.call
           /\ draft' = [draft EXCEPT !.sent = @ + r.sent]
    /\ draft.sent < MaxSteps
    /\ UNCHANGED <<text, steps, game, cache, batch, toi, edge>>

InitDraft ==
    /\ text = <<>>
    /\ steps = <<>>
    /\ game = [plays |-> <<>>, rosterSpots |-> <<>>, shifts |-> <<>>]
    /\ ret = [fn |-> "none", status |-> "none", pbp |-> <<>>, shifts |-> <<>>]
    /\ cache = NoCache
    /\ batch = NoBatch
    /\ toi = NoToi
    /\ edge = NoEdge
    /\ \E year \in DraftYears, round \in DraftRounds, response \in DraftResponses :
          draft = [year |-> year, round |-> round, response |-> response, sent |-> 0]

NextDraft == ScrapeDraft

SpecDraft == InitDraft /\ [][NextDraft]_vars

(***************************************************************************)
(* Claims on the merged timeline and the entry points.                     *)
(***************************************************************************)
Scraped == ret.fn = "scrape_pbp" /\ ret.status = "ok"

\* the rows of the returned frame that are discrete events of the feed
CoreRows == {i \in 1..Len(ret.pbp) : ret.pbp[i].event # "line-change"}

LineChangeRows == {i \in 1..Len(ret.pbp) : ret.pbp[i].event = "line-change"}

\* C1: in the timeline scrape_pbp returns, elapsedTime never decreases from
\* a row to the next, and two adjacent rows of the same elapsedTime both
\* have a priority of the table and the first is not above the second.
C1_Ordered ==
    Scraped =>
        \A i \in 1..(Len(ret.pbp) - 1) :
            LET a == ret.pbp[i]
                b == ret.pbp[i + 1]
            IN  /\ a.elapsedTime <= b.elapsedTime
                /\ a.elapsedTime = b.elapsedTime =>
                      /\ notnull(a.priority)
                      /\ notnull(b.priority)
                      /\ Val(a.priority) <= Val(b.priority)

ClosedVocabulary ==
    {"period-start", "faceoff", "hit", "blocked-shot", "shot-on-goal", "stoppage",
     "giveaway", "delayed-penalty", "penalty", "failed-shot-attempt", "missed-shot",
     "goal", "takeaway", "period-end", "shootout-complete", "game-end"}

HasUnknownType(g) ==
    \E i \in 1..Len(g.plays) : g.plays[i].typeDescKey \notin ClosedVocabulary

Validating == {"scrape_pbp", "scrapeGameComplete", "validate_event_types"}

\* C2: when some play of the feed has a type outside the closed vocabulary,
\* scrape_pbp, scrapeGameComplete and validate_event_types raise, and no
\* row is returned.
C2_UnknownTypeRaises ==
    (ret.fn \in Validating /\ HasUnknownType(game)) =>
        /\ ret.status \notin {"ok", "none"}
        /\ ret.pbp = <<>>

\* a feed whose second play is of an unknown type after a known one, refused
\* by scrape_pbp with the ValueError of the vocabulary check
C2_Witness ==
    /\ ret.fn = "scrape_pbp"
    /\ Len(game.plays) = 2
    /\ game.plays[1].typeDescKey \in ClosedVocabulary
    /\ game.plays[2].typeDescKey \notin ClosedVocabulary
    /\ ret.status = "ValueError"

\* the players of one side with a skater shift over second S
SkatersOver(is_home, S) ==
    {ret.shifts[k].playerId : k \in {k \in 1..Len(ret.shifts) :
        /\ ret.shifts[k].is_home = is_home
        /\ ret.shifts[k].position # <<"G">>
        /\ ret.shifts[k].startTime_s <= S
        /\ S < ret.shifts[k].endTime_s}}

Listed(ids) == {ids[j] : j \in 1..Len(ids)}

\* C3: on every discrete event row at second S, the home (away) skaters
\* listed are exactly the players with a home (away) skater shift with
\* startTime_s <= S < endTime_s, and home_skaters / away_skaters are the
\* sizes of those sets.
C3_OnIceSkaters ==
    Scraped =>
        \A i \in CoreRows :
            LET e == ret.pbp[i]
            IN  /\ Listed(e.home_skater_id) = SkatersOver(1, e.elapsedTime)
                /\ Listed(e.away_skater_id) = SkatersOver(0, e.elapsedTime)
                /\ e.home_skaters = <<Cardinality(SkatersOver(1, e.elapsedTime))>>
                /\ e.away_skaters = <<Cardinality(SkatersOver(0, e.elapsedTime))>>

\* an event at a second where one skater's shift starts and another
\* skater's shift ends: the first is listed, the second is not
C3_Witness ==
    /\ Scraped
    /\ \E i \in CoreRows : \E k, l \in 1..Len(ret.shifts) :
          LET e == ret.pbp[i]
              on == ret.shifts[k]
              off == ret.shifts[l]
          IN  /\ on.position # <<"G">> /\ off.position # <<"G">>
              /\ on.is_home = 1 /\ off.is_home = 0
              /\ on.startTime_s = e.elapsedTime /\ on.endTime_s > e.elapsedTime
              /\ off.endTime_s = e.elapsedTime /\ off.startTime_s < e.elapsedTime
              /\ on.playerId \in Listed(e.home_skater_id)
              /\ off.playerId \notin Listed(e.away_skater_id)
              /\ e.home_skaters = <<1>> /\ e.away_skaters = <<0>>

\* the goalies of one side with a shift over second S
GoaliesOver(is_home, S) ==
    {ret.shifts[k].playerId : k \in {k \in 1..Len(ret.shifts) :
        /\ ret.shifts[k].is_home = is_home
        /\ ret.shifts[k].position = <<"G">>
        /\ ret.shifts[k].startTime_s <= S
        /\ S < ret.shifts[k].endTime_s}}

GoalieField(e, is_home) == IF is_home = 1 THEN e.home_goalie_id ELSE e.away_goalie_id

\* the play of the feed a discrete event row comes from
PlayOf(e) == game.plays[Val(e.eventId)]

\* the feed names a goalie, no side has exactly one goalie on the ice, and
\* the event is not an event of the side (a play without a team counts as
\* an away event)
FeedGoalieGoesTo(e, is_home) ==
    /\ notnull(PlayOf(e).goalieInNetId)
    /\ Cardinality(GoaliesOver(1, e.elapsedTime)) # 1
    /\ Cardinality(GoaliesOver(0, e.elapsedTime)) # 1
    /\ (is_home = 1) = (PlayOf(e).eventOwnerTeamId # <<homeTeam.id>>)

\* C4 as stated: when two different goalies of a side both have a shift
\* over second S, the goalie derived for that side at S is null and the
\* goalie field of that side is null on every event row at S.
C4_TwoGoaliesNull ==
    Scraped =>
        \A i \in CoreRows : \A is_home \in {0, 1} :
            LET e == ret.pbp[i]
            IN  Cardinality(GoaliesOver(is_home, e.elapsedTime)) >= 2 =>
                  /\ goalie_id(ret.shifts, is_home, e.elapsedTime) = NaN
                  /\ GoalieField(e, is_home) = NaN

\* C4, amended: when two different goalies of a side both have a shift over
\* second S, the goalie derived for that side at S is null, and the goalie
\* field of that side on an event row at S is null unless the feed names a
\* goalie for the event, the other side has no derived goalie either and
\* the event is not of that side; the field is then the feed's goalie.
C4_TwoGoaliesNullUnlessFeed ==
    Scraped =>
        \A i \in CoreRows : \A is_home \in {0, 1} :
            LET e == ret.pbp[i]
            IN  Cardinality(GoaliesOver(is_home, e.elapsedTime)) >= 2 =>
                  /\ goalie_id(ret.shifts, is_home, e.elapsedTime) = NaN
                  /\ GoalieField(e, is_home) =
                        IF FeedGoalieGoesTo(e, is_home)
                        THEN PlayOf(e).goalieInNetId ELSE NaN

\* both home goalies are on the ice for the whole minute and no away goalie
\* is: the home goalie field is null on one event row, and on another it is
\* the goalie the feed names
C4_Witness ==
    /\ Scraped
    /\ \E i, j \in CoreRows :
          /\ GoaliesOver(1, ret.pbp[i].elapsedTime) = {<<5>>, <<6>>}
          /\ ret.pbp[i].home_goalie_id = NaN
          /\ GoaliesOver(1, ret.pbp[j].elapsedTime) = {<<5>>, <<6>>}
          /\ FeedGoalieGoesTo(ret.pbp[j], 1)
          /\ ret.pbp[j].home_goalie_id = <<5>>

\* the most recent non-null value of a counter at or before play n, else 0
Reconciled(col, n) ==
    LET seen == {k \in 1..n : notnull(game.plays[k][col])}
    IN  IF seen = {} THEN 0
        ELSE Val(game.plays[CHOOSE k \in seen : \A j \in seen : j <= k][col])

Reconciling == {"scrape_pbp", "scrapeGameComplete", "add_action_players"}

\* C5: on every discrete event row returned by scrape_pbp,
\* scrapeGameComplete or add_action_players, each of the four running
\* counters is the most recent non-null value of the feed at or before that
\* play in feed order, and 0 when there is none.
C5_CountersCarried ==
    (ret.fn \in Reconciling /\ ret.status = "ok") =>
        \A i \in CoreRows : \A col \in {"homeScore", "awayScore", "homeSOG", "awaySOG"} :
            /\ col \in DOMAIN ret.pbp[i]
            /\ ret.pbp[i][col] = <<Reconciled(col, Val(ret.pbp[i].eventId))>>

Negated(coord) == IF isna(coord) THEN NaN ELSE <<0 - Val(coord)>>

Normalized(coord, p) ==
    IF p.homeTeamDefendingSide = "right" THEN Negated(coord) ELSE coord

\* C6: the normalized coordinate of an event is (-x, -y) exactly when the
\* home team defends the right side, for a HOME and for an AWAY event alike,
\* and the raw (x, y) otherwise; a null raw coordinate stays null.  This
\* holds of the rows of scrape_pbp and of fix_coordinates.
C6_CoordinateFlip ==
    /\ Scraped =>
          \A i \in CoreRows :
              LET e == ret.pbp[i]
              IN  /\ e.xFixed = Normalized(PlayOf(e).xCoord, PlayOf(e))
                  /\ e.yFixed = Normalized(PlayOf(e).yCoord, PlayOf(e))
    /\ ret.fn = "fix_coordinates" =>
          /\ Len(ret.pbp) = Len(game.plays)
          /\ \A i \in 1..Len(ret.pbp) :
                /\ ret.pbp[i].xFixed = Normalized(game.plays[i].xCoord, game.plays[i])
                /\ ret.pbp[i].yFixed = Normalized(game.plays[i].yCoord, game.plays[i])

\* a HOME event at raw (25, 10) while the home team defends the right side,
\* returned by scrape_pbp at (-25, -10)
C6_Witness ==
    /\ Scraped
    /\ \E i \in CoreRows :
          LET e == ret.pbp[i]
          IN  /\ PlayOf(e).eventOwnerTeamId = <<homeTeam.id>>
              /\ PlayOf(e).homeTeamDefendingSide = "right"
              /\ PlayOf(e).xCoord = <<25>> /\ PlayOf(e).yCoord = <<10>>
              /\ e.xFixed = <<0 - 25>> /\ e.yFixed = <<0 - 10>>

\* the seconds a TOI report writes as "MM:SS"
ReportSeconds(t) == int(SubSeq(t, 1, 2)) * 60 + int(SubSeq(t, 4, 5))

\* some shift ends at or before its start, or two shift rows of one player
\* in one period overlap
InvalidShifts(g) ==
    \/ \E k \in 1..Len(g.shifts) :
          ReportSeconds(g.shifts[k].end_elapsed) <= ReportSeconds(g.shifts[k].start_elapsed)
    \/ \E k, l \in 1..Len(g.shifts) :
          /\ k # l
          /\ g.shifts[k].is_home = g.shifts[l].is_home
          /\ g.shifts[k].sweaterNumber = g.shifts[l].sweaterNumber
          /\ g.shifts[k].Period = g.shifts[l].Period
          /\ ReportSeconds(g.shifts[k].start_elapsed) < ReportSeconds(g.shifts[l].end_elapsed)
          /\ ReportSeconds(g.shifts[l].start_elapsed) < ReportSeconds(g.shifts[k].end_elapsed)

\* C7: scrape_pbp fails, and returns no timeline, whenever some shift has
\* endSeconds <= startSeconds or a player has two overlapping shifts in one
\* period.
C7_InvalidShiftsFail ==
    (ret.fn = "scrape_pbp" /\ InvalidShifts(game)) => ret.status # "ok"

\* the game of the scenario: one shift over [0, 60) under the heading of
\* each of the four skaters
Scenario ==
    /\ game \in ScenarioGames
    /\ \A k \in 1..4 : /\ game.shifts[k].start_elapsed = Clock(0, 0)
                       /\ game.shifts[k].end_elapsed = Clock(1, 0)

ShotRows == {i \in CoreRows : ret.pbp[i].event = "shot-on-goal"}

\* C8 as stated: the timeline of the scenario has exactly 2 core events and
\* exactly 4 line-change events, and the home skaters listed on the shot
\* row are {P1, P2}.
C8_FourLineChanges ==
    (Scraped /\ Scenario) =>
        /\ Cardinality(CoreRows) = 2
        /\ Cardinality(LineChangeRows) = 4
        /\ \A i \in ShotRows : Listed(ret.pbp[i].home_skater_id) = {<<1>>, <<2>>}

\* the seconds of a play's clock text "MM:SS"
InPeriodSeconds(p) ==
    int(SubSeq(p.timeInPeriod, 1, 2)) * 60 + int(SubSeq(p.timeInPeriod, 4, 5))

Timing == {"scrape_pbp", "scrapeGameComplete", "add_elapsed_time"}

\* C11: on the rows scrape_pbp, scrapeGameComplete and add_elapsed_time
\* return, an event whose period type is shootout has elapsed seconds 3900
\* whatever its period number and clock, and every other event has
\* (period - 1) * 1200 + its in-period seconds.
C11_ShootoutSentinel ==
    (ret.fn \in Timing /\ ret.status = "ok") =>
        \A i \in CoreRows :
            LET e == ret.pbp[i]
                p == PlayOf(e)
                elapsed == IF ret.fn = "add_elapsed_time" THEN e.elapsedTime
                           ELSE <<e.elapsedTime>>
            IN  elapsed = IF p.periodType = "SO" THEN <<3900>>
                          ELSE <<(p.period - 1) * 1200 + InPeriodSeconds(p)>>


\* the event types the priority table of the merge has an entry for
Prioritized ==
    {"goal", "penalty", "delayed-penalty", "shot-on-goal", "missed-shot",
     "failed-shot-attempt", "blocked-shot", "hit", "takeaway", "giveaway",
     "stoppage", "line-change", "period-start", "period-end", "game-end", "faceoff"}

\* C12: when some play of the feed has an event type without an entry in
\* the priority table, scrape_pbp raises instead of returning; hence every
\* row of a returned timeline has a priority.
C12_MissingPriorityFatal ==
    ret.fn = "scrape_pbp" =>
        /\ (\E i \in 1..Len(game.plays) : game.plays[i].typeDescKey \notin Prioritized)
              => ret.status # "ok"
        /\ ret.status = "ok" => \A i \in 1..Len(ret.pbp) : notnull(ret.pbp[i].priority)

\* C13: what a call of scrape_pbp or scrapeGameComplete returns is what
\* the entry point computes from the game's data, whatever calls were made
\* before and whatever a caller did to the frames they returned.
C13_CallsIndependent ==
    [][/\ CallScrapePbp => ret' = scrape_pbp(game)
       /\ CallScrapeGameComplete => ret' = scrapeGameComplete(game)]_vars

\* a game of the batch whose processing failed
Failed(i) == TryBody(i, batch.feeds[i]).status # "ok"

\* the rows of the returned table that carry game id i
RowsOf(i) == SelectSeq(batch.out, LAMBDA row : row.gameId = i)

OutOfVocabulary(feed) ==
    \/ \E k \in 1..Len(feed.html) :
          /\ feed.html[k] \notin {"ANTHEM", "PGEND", "PGSTR"}
          /\ event_mapping(feed.html[k]) = "unknown"
    \/ \E k \in 1..Len(feed.plays) : feed.plays[k].typeDescKey \notin expected_events

\* C15: a game with an event outside the vocabulary raises inside its
\* processing, and no row labelled "unknown" is in a merged output
C15_UnknownEventRaises ==
    /\ \A i \in DOMAIN batch.done :
          /\ OutOfVocabulary(batch.feeds[i]) => Failed(i)
          /\ \A k \in 1..Len(batch.done[i].pbp) : batch.done[i].pbp[k].event # "unknown"
    /\ \A k \in 1..Len(batch.out) : batch.out[k].event # "unknown"

\* ret is what the entry point last called computes from the feed as it is
Fresh ==
    \/ ret.fn = "scrape_pbp" /\ ret = scrape_pbp(game)
    \/ ret.fn = "scrapeGameComplete" /\ ret = scrapeGameComplete(game)

\* C16: a feed without an expected column does not make the scrape fail, and
\* every column of the feed that is not an expected one is in the output, its
\* values those of the plays
C16_SchemaDriftTolerated ==
    Fresh /\ game \in DriftGames =>
        /\ ret.status = "ok"
        /\ \A i \in 1..Len(ret.pbp) :
              ret.pbp[i].event # "line-change" =>
                  LET play == game.plays[Val(ret.pbp[i].eventId)]
                  IN  /\ \A c \in missing_columns(game.plays) \cap DOMAIN ret.pbp[i] :
                            isna(ret.pbp[i][c])
                      /\ \A c \in new_columns(game.plays) :
                            /\ c \in DOMAIN ret.pbp[i]
                            /\ ret.pbp[i][c] = IF c \in DOMAIN play THEN play[c] ELSE NaN

\* C17: every faceoff row of the merged timeline has a zone label for the home
\* side and one for the away side
C17_FaceoffZoneLabelled ==
    Scraped =>
        \A i \in 1..Len(ret.pbp) :
            ret.pbp[i].event = "faceoff" =>
                notnull(ret.pbp[i].home_team_side) /\ notnull(ret.pbp[i].away_team_side)

\* C18: scrapeDraft raises ValueError for an invalid year or round and sends
\* no request; with valid arguments it raises HTTPError when the request
\* fails and KeyError when the body has no 'picks'
C18_DraftExceptions ==
    ret.fn = "scrapeDraft" =>
        IF ~ArgumentsValid(draft.year, draft.round)
        THEN ret.status = "ValueError" /\ draft.sent = 0
        ELSE /\ draft.response \in {"ConnectionError", "404"} => ret.status = "HTTPError"
             /\ draft.response = "no picks" => ret.status = "KeyError"

\* the ids of a list rise from each slot to the next
Ascending(ids) == \A j \in 1..(Len(ids) - 1) : Val(ids[j]) < Val(ids[j + 1])

\* C19: on every event row the skaters of a side fill its slots in ascending
\* playerId order, whatever the order of the shift rows
C19_SlotsAscending ==
    Scraped =>
        \A i \in CoreRows :
            Ascending(ret.pbp[i].home_skater_id) /\ Ascending(ret.pbp[i].away_skater_id)

\* the goalie the shift rows give a side at second S: the one goalie with a
\* shift over S, or none
ShiftGoalie(is_home, S) ==
    IF Cardinality(GoaliesOver(is_home, S)) = 1
    THEN CHOOSE id \in GoaliesOver(is_home, S) : TRUE
    ELSE NaN

\* the feed names a goalie for the event and the shift rows give neither side one
FeedGoalieOnly(e) ==
    /\ notnull(PlayOf(e).goalieInNetId)
    /\ isna(ShiftGoalie(1, e.elapsedTime))
    /\ isna(ShiftGoalie(0, e.elapsedTime))

\* C20: on an event row the feed's goalieInNetId is the away goalie of a home
\* event, and the home goalie of an away event, when the feed names a goalie
\* and the shift rows give neither side one; every other goalie field is the
\* goalie the shift rows give
C20_FeedGoalieFallback ==
    Scraped =>
        \A i \in CoreRows :
            LET e == ret.pbp[i]
            IN  /\ e.home_goalie_id =
                      IF FeedGoalieOnly(e) /\ e.eventTeamType = "away"
                      THEN PlayOf(e).goalieInNetId ELSE ShiftGoalie(1, e.elapsedTime)
                /\ e.away_goalie_id =
                      IF FeedGoalieOnly(e) /\ e.eventTeamType = "home"
                      THEN PlayOf(e).goalieInNetId ELSE ShiftGoalie(0, e.elapsedTime)

\* a home shot on the away goalie the feed names, no goalie shift over its
\* second: the away goalie is the feed's, the home goalie stays null
C20_Witness ==
    /\ Scraped
    /\ \E i \in CoreRows :
          LET e == ret.pbp[i]
          IN  /\ FeedGoalieOnly(e)
              /\ PlayOf(e).eventOwnerTeamId = <<homeTeam.id>>
              /\ e.away_goalie_id = <<7>>
              /\ isna(e.home_goalie_id)

\* C21: every shift has a line-change row at its start second and one at its
\* end second, both with the shift's player in playerId_1, and no end (OFF)
\* row carries a zone-start label
C21_ZoneStartOnStartOnly ==
    Scraped =>
        /\ \A k \in 1..Len(ret.shifts) :
              /\ \E i \in LineChangeRows :
                    /\ ret.pbp[i].typeCode = <<"ON">>
                    /\ ret.pbp[i].elapsedTime = ret.shifts[k].startTime_s
                    /\ ret.pbp[i].playerId_1 = ret.shifts[k].playerId
              /\ \E i \in LineChangeRows :
                    /\ ret.pbp[i].typeCode = <<"OFF">>
                    /\ ret.pbp[i].elapsedTime = ret.shifts[k].endTime_s
                    /\ ret.pbp[i].playerId_1 = ret.shifts[k].playerId
        /\ \A i \in LineChangeRows :
              ret.pbp[i].typeCode = <<"OFF">> => isna(ret.pbp[i].zoneStartSide_1)

\* a zone label seen from the other bench
Mirrored(label) ==
    CASE label = <<"Offensive Zone">> -> <<"Defensive Zone">>
      [] label = <<"Defensive Zone">> -> <<"Offensive Zone">>
      [] OTHER -> label

\* the faceoff rows of the timeline at second S
FaceoffsAt(S) ==
    {i \in CoreRows : ret.pbp[i].event = "faceoff" /\ ret.pbp[i].elapsedTime = S}

\* C22: the zone-start label of a shift is null when no faceoff has the
\* shift's start second; otherwise it is a zone, that of a faceoff of that
\* second: the home label for a home player and its mirror image for an away
\* player
C22_ZoneStartLabel ==
    Scraped =>
        \A k \in 1..Len(ret.shifts) :
            LET s == ret.shifts[k]
            IN  IF FaceoffsAt(s.startTime_s) = {}
                THEN isna(s.zoneStartSide)
                ELSE /\ notnull(s.zoneStartSide)
                     /\ \E i \in FaceoffsAt(s.startTime_s) :
                           s.zoneStartSide =
                               IF s.is_home = 1 THEN ret.pbp[i].home_team_side
                               ELSE Mirrored(ret.pbp[i].home_team_side)

\* the raw fields of the actors of an event type, in slot order
ActorTable(type) ==
    CASE type = "faceoff" -> <<"winningPlayerId", "losingPlayerId">>
      [] type = "hit" -> <<"hittingPlayerId", "hitteePlayerId">>
      [] type = "blocked-shot" -> <<"shootingPlayerId", "blockingPlayerId">>
      [] type \in {"shot-on-goal", "missed-shot", "failed-shot-attempt"} ->
             <<"shootingPlayerId">>
      [] type = "goal" -> <<"scoringPlayerId", "assist1PlayerId", "assist2PlayerId">>
      [] type \in {"giveaway", "takeaway"} -> <<"playerId">>
      [] type = "penalty" ->
             <<"committedByPlayerId", "drawnByPlayerId", "servedByPlayerId">>
      [] OTHER -> <<>>

\* the actor slots of an event row are those of the table for its play
SlotsOfTable(e) ==
    LET p == PlayOf(e)
        slots == <<e.playerId_1, e.playerId_2, e.playerId_3>>
    IN  \A j \in 1..3 :
            slots[j] = IF j <= Len(ActorTable(p.typeDescKey))
                       THEN p.details[ActorTable(p.typeDescKey)[j]] ELSE NaN

ActorRoutines == {"process_event_players", "tools_process_event_players"}

\* C23: every copy of the actor routine returns, without a fourth slot read
\* or written, and on every event row it or scrape_pbp returns the slots 1..3
\* hold the raw fields of the table for the row's type, null where the table
\* lists none
C23_ActorSlots ==
    /\ ret.fn \in ActorRoutines =>
          /\ ret.status = "ok"
          /\ \A i \in 1..Len(ret.pbp) :
                SlotsOfTable(ret.pbp[i]) /\ "playerId_4" \notin DOMAIN ret.pbp[i]
    /\ Scraped => \A i \in CoreRows : SlotsOfTable(ret.pbp[i])

\* the discrete event rows above row i of the timeline
EventsBefore(i) == {j \in CoreRows : j < i}

\* C24: on every line-change row of the merged timeline each running counter
\* is the one of the most recent discrete event above it in the timeline, and
\* 0 when there is none
C24_LineChangeCarriesForward ==
    Scraped =>
        \A i \in LineChangeRows : \A col \in {"homeScore", "awayScore", "homeSOG", "awaySOG"} :
            ret.pbp[i][col] =
                IF EventsBefore(i) = {} THEN <<0>>
                ELSE ret.pbp[CHOOSE j \in EventsBefore(i) :
                                 \A k \in EventsBefore(i) : k <= j][col]

\* C25: down the timeline scrape_pbp returns the period number never
\* decreases, the rows of the end of a period and of the start of the next,
\* which have the same elapsed second, included
C25_PeriodsInOrder ==
    Scraped =>
        \A i, j \in 1..Len(ret.pbp) :
            (i < j /\ notnull(ret.pbp[i].periodNumber) /\ notnull(ret.pbp[j].periodNumber))
                => Val(ret.pbp[i].periodNumber) <= Val(ret.pbp[j].periodNumber)

\* C26: a line-change row of the returned timeline is a home event exactly
\* when its player is of the home team, and its eventTeamId is the id of the
\* player's team
C26_LineChangeTeam ==
    Scraped =>
        \A i \in LineChangeRows :
            /\ (ret.pbp[i].eventTeamType = "home") = (ret.pbp[i].is_home = <<1>>)
            /\ ret.pbp[i].eventTeamId = IF ret.pbp[i].is_home = <<1>>
                                        THEN <<homeTeam.id>> ELSE <<awayTeam.id>>

\* C27: the merged timeline has one row for each play of the feed and two
\* line-change rows for each shift row of the report
C27_RowCounts ==
    Scraped =>
        /\ Cardinality(CoreRows) = Len(game.plays)
        /\ Cardinality(LineChangeRows) = 2 * Len(game.shifts)

\* C28: every shift row of a report comes back from scrapeShiftsHTML with
\* the number of the player whose heading it stands under, its first shift
\* included, whatever the number of headings and of shifts under each
C28_RowsUnderTheirHeading ==
    Scraped =>
        \A k \in 1..Len(game.shifts) :
            \E j \in 1..Len(ret.shifts) :
                /\ ret.shifts[j].is_home = game.shifts[k].is_home
                /\ ret.shifts[j].sweaterNumber = game.shifts[k].sweaterNumber
                /\ ret.shifts[j].startTime_s = ReportSeconds(game.shifts[k].start_elapsed)
                /\ ret.shifts[j].endTime_s = ReportSeconds(game.shifts[k].end_elapsed)

\* the games whose task returns a dict
ToiScraped == {i \in 1..Len(toi.pages) : scrape_toi_single_game(i, toi.pages[i]).status = "ok"}

\* C29: with progress and without, in every order in which the tasks finish,
\* scrape_toi_multiple_games returns, and what it returns are the frames of
\* exactly the games whose scrape did not raise
C29_SameGamesEitherMode ==
    toi.status \notin {"none", "running"} =>
        /\ toi.status = "ok"
        /\ toi.game_details = ToiScraped
        /\ {toi.TOI_combined[k].gameId : k \in 1..Len(toi.TOI_combined)} = ToiScraped

\* C30: a call is over only after an attempt that gave a frame or after
\* max_attempts attempts, never more, and between its attempts the wrapper
\* has waited 2 s, then 4 s
C30_RetriedWithBackoff ==
    edge.pc = "done" =>
        /\ edge.calls <= max_attempts
        /\ edge.result = "frame" \/ edge.calls = max_attempts
        /\ edge.waits = SubSeq(<<delay, 2 * delay>>, 1, edge.calls - 1)

(***************************************************************************)
(* The codec as a state machine: a text arrives, and the converters and    *)
(* the formatter are applied to it in turn.                                *)
(***************************************************************************)
TextChars == {"0", "5", ":", "x"}

Texts == UNION {[1..n -> TextChars] : n \in 0..MaxTextLen}

IsConvert(step) ==
    step.fn \in {"convert_str_to_seconds", "convert_time_to_seconds",
                 "tools.convert_time_to_seconds"}

\* the text the next converter call is given: the arriving text, or the
\* text the formatter has just produced
Current == IF steps = <<>> THEN text ELSE steps[Len(steps)].text

CanConvert ==
    /\ Len(steps) < MaxSteps
    /\ steps # <<>> => steps[Len(steps)].fn = "format_seconds_to_time"

Call(fn, hours, t, res) == [fn |-> fn, hours |-> hours, text |-> t, res |-> res]

ConvertStrToSeconds ==
    /\ CanConvert
    /\ steps' = Append(steps, Call("convert_str_to_seconds", FALSE, Current,
                                   convert_str_to_seconds(Current)))
    /\ UNCHANGED <<text, game, ret, cache, batch, draft, toi, edge>>

ConvertTimeToSeconds ==
    /\ CanConvert
    /\ steps' = Append(steps, Call("convert_time_to_seconds", FALSE, Current,
                                   convert_time_to_seconds(Current)))
    /\ UNCHANGED <<text, game, ret, cache, batch, draft, toi, edge>>

ToolsConvertTimeToSeconds ==
    /\ CanConvert
    /\ steps' = Append(steps, Call("tools.convert_time_to_seconds", FALSE, Current,
                                   tools_convert_time_to_seconds(Current)))
    /\ UNCHANGED <<text, game, ret, cache, batch, draft, toi, edge>>

FormatSecondsToTime ==
    /\ Len(steps) < MaxSteps
    /\ steps # <<>>
    /\ IsConvert(steps[Len(steps)])
    /\ steps[Len(steps)].res.status = "ok"
    /\ \E include_hours \in BOOLEAN :
          LET seconds == Val(steps[Len(steps)].res.value)
          IN  steps' = Append(steps, Call("format_seconds_to_time", include_hours,
                                          format_seconds_to_time(seconds, include_hours),
                                          Ok(seconds)))
    /\ UNCHANGED <<text, game, ret, cache, batch, draft, toi, edge>>

InitCodec ==
    /\ text \in Texts
    /\ steps = <<>>
    /\ game = [plays |-> <<>>, rosterSpots |-> <<>>, shifts |-> <<>>]
    /\ ret = [fn |-> "none", status |-> "none", pbp |-> <<>>, shifts |-> <<>>]
    /\ cache = NoCache
    /\ batch = NoBatch
    /\ draft = NoDraft
    /\ toi = NoToi
    /\ edge = NoEdge

NextCodec ==
    \/ ConvertStrToSeconds
    \/ ConvertTimeToSeconds
    \/ ToolsConvertTimeToSeconds
    \/ FormatSecondsToTime

SpecCodec == InitCodec /\ [][NextCodec]_vars

(***************************************************************************)
(* Claims on the time codec.                                               *)
(***************************************************************************)
\* a valid "M:SS" clock text: one or more minute digits, a colon, two
\* second digits below 60
ValidClock(s) ==
    /\ count(s, ":") = 1
    /\ LET parts == split(s, ":")
       IN  /\ IsInt(parts[1])
           /\ IsInt(parts[2])
           /\ Len(parts[2]) = 2
           /\ int(parts[2]) < 60

TimeConverters == {"convert_time_to_seconds", "tools.convert_time_to_seconds"}

\* C9: for every valid "M:SS" text s, converting s to seconds, formatting
\* the seconds (with or without hours) and converting the formatted text
\* again gives the seconds of s: toSeconds(fromSeconds(toSeconds(s))) =
\* toSeconds(s).
C9_RoundTrip ==
    \A i \in 1..(Len(steps) - 2) :
        ( /\ steps[i].fn \in TimeConverters
          /\ ValidClock(steps[i].text)
          /\ steps[i + 1].fn = "format_seconds_to_time"
          /\ steps[i + 2].fn \in TimeConverters )
        => /\ steps[i].res.status = "ok"
           /\ steps[i + 2].res.status = "ok"
           /\ steps[i + 2].res.value = steps[i].res.value

\* a round trip of a text of an hour or more, through both output formats
C9_Witness ==
    /\ Len(steps) >= 3
    /\ steps[1].fn \in TimeConverters
    /\ ValidClock(steps[1].text)
    /\ steps[1].res.status = "ok"
    /\ Val(steps[1].res.value) >= 3600
    /\ steps[2].fn = "format_seconds_to_time"
    /\ steps[2].hours
    /\ steps[2].text # steps[1].text
    /\ steps[3].fn \in TimeConverters
    /\ steps[3].res.status = "ok"

\* the separator count is not 1 or 2, or some component is not numeric
Malformed(s) ==
    \/ count(s, ":") \notin {1, 2}
    \/ \E i \in 1..Len(split(s, ":")) : ~IsInt(split(s, ":")[i])

\* C10: converting a clock text to seconds fails, and returns no number,
\* whenever the text's separator count is not 1 or 2 or a component is
\* not numeric.
C10_MalformedRaises ==
    \A i \in 1..Len(steps) :
        (IsConvert(steps[i]) /\ Malformed(steps[i].text)) => steps[i].res.status # "ok"

====
